---- MODULE Spec2Model ----
(***************************************************************************)
(* Job poller of oneclaw-node (autonomous_jobs_poller.rs) and the status / *)
(* results client it is built on (autonomous_jobs.rs).                     *)
(*                                                                         *)
(* One JobPoller is one poll session.  run_until_complete is a loop of     *)
(* poll_and_notify calls; every .await of the code (status call, channel   *)
(* send, sleep, results call) is one action of the model, and the          *)
(* synchronous code up to the next .await belongs to the action that       *)
(* resumes there.  The executor service and the messaging channel are the  *)
(* environment: every status call may fail or return any snapshot, every   *)
(* send may fail.                                                          *)
(***************************************************************************)
EXTENDS Integers, Sequences, FiniteSets, TLC

\* ------------------------------------------------------------------------
\* Bounds of the model
\* ------------------------------------------------------------------------

\* status calls made by one poll session before the model stops it
MaxPolls == 3

\* largest totalSteps the executor reports
MaxStep == 3

\* channel.send calls that fail before the channel delivers every message
MaxSendFailures == 1

\* status calls made by each of two poll sessions that run concurrently
MaxSessionPolls == 1

\* ------------------------------------------------------------------------
\* JSON values of the executor's status document
\* ------------------------------------------------------------------------

\* as_str() of a field that is missing, null or not a string
NoStr == "<none>"

\* a JSON integer hi * 2^32 + lo; as_i64() is None when some is FALSE
Num(n) == [some |-> TRUE, hi |-> 0, lo |-> n]

Wide(n) == [some |-> TRUE, hi |-> 1, lo |-> n]

NoNum == [some |-> FALSE, hi |-> 0, lo |-> 0]

\* `as i32` on an i64 keeps the low 32 bits (lo stays within i32 here)
AsI32(j) == j.lo

\* as_i64().unwrap_or(d) as i32
I64OrAsI32(j, d) == IF j.some THEN AsI32(j) ELSE d

\* as_str().unwrap_or(d)
StrOr(s, d) == IF s = NoStr THEN d ELSE s

\* as_array() of "steps": None when some is FALSE
NoSteps == [some |-> FALSE, items |-> <<>>]

StepsOf(items) == [some |-> TRUE, items |-> items]

\* the step list the executor reports: action and status of step i; the
\* second action is outside the action vocabulary, the third entry has
\* neither field
PlanActions == <<"discover", "scrape", NoStr, "draft-email">>

PlanStatuses == <<"completed", "running", NoStr, "completed">>

StepEntry(i) ==
    [action |-> PlanActions[((i - 1) % Len(PlanActions)) + 1],
     status |-> PlanStatuses[((i - 1) % Len(PlanStatuses)) + 1]]

StepList(n) == [i \in 1..n |-> StepEntry(i)]

StatusValues == {"running", "paused", "completed", "failed", "cancelled", NoStr}

CurrentStepValues == {NoNum, Wide(2)} \cup {Num(n) : n \in 0..(MaxStep + 1)}

TotalStepsValues == {NoNum, Num(MaxStep)}

StepsValues == {NoSteps, StepsOf(StepList(1)), StepsOf(StepList(MaxStep))}

ErrorValues == {NoStr, "harness timeout"}

\* number of fields of a status document that are not what a well-behaved
\* executor reports for a job of MaxStep steps
Irregularities(sn) ==
    (IF sn.currentStep \in {Num(n) : n \in 0..MaxStep} THEN 0 ELSE 1)
    + (IF sn.totalSteps = Num(MaxStep) THEN 0 ELSE 1)
    + (IF sn.steps = StepsOf(StepList(MaxStep)) THEN 0 ELSE 1)

\* every document with the fields drawn from the sets above
Documents ==
    [status : StatusValues, currentStep : CurrentStepValues,
     totalSteps : TotalStepsValues, steps : StepsValues, error : ErrorValues]

\* the status documents GET /autonomous-jobs/{jobId}/status may return:
\* every regular document, and the documents with one irregular field of a
\* running or completed job
Snapshots ==
    UNION {IF /\ sn.error # NoStr => sn.status = "failed"
              /\ Irregularities(sn) <= 1
              /\ Irregularities(sn) = 1 => sn.status \in {"running", "completed"}
           THEN {sn} ELSE {} : sn \in Documents}

\* ------------------------------------------------------------------------
\* JobPoller
\* ------------------------------------------------------------------------

Pollers == {"poller1", "poller2"}

\* JobPoller::new arguments (immutable fields)
job_id == [p \in Pollers |-> IF p = "poller1" THEN "job-1" ELSE "job-2"]

channel_id == [p \in Pollers |-> IF p = "poller1" THEN "1001" ELSE "1002"]

channel_type == [p \in Pollers |-> "Telegram"]

VARIABLES
    started,         \* the poll sessions that were created and are driven
    pc,              \* where each session's run_until_complete is
    last_step,       \* JobPoller.last_step
    status,          \* the snapshot of the current / latest poll_and_notify call
    entry_last_step, \* last_step when the current / latest poll_and_notify call began
    polls,           \* number of poll_and_notify calls so far
    poll_result,     \* return value of the latest poll_and_notify call
    repeat,          \* the current / latest call fetched the same snapshot as the call before
    errors,          \* number of poll_and_notify calls that returned Err so far
    delay,           \* duration of the current / latest sleep
    outbox,          \* every channel.send call so far: target, notification, outcome
    call_msgs,       \* the OutgoingMessages of the current / latest poll_and_notify call
    requests,        \* executor-service calls so far
    ret              \* return value of run_until_complete

pollerVars == <<started, pc, last_step, status, entry_last_step, polls, poll_result,
                repeat, errors, delay, outbox, call_msgs, requests, ret>>

\* local decoding in poll_and_notify
JobStatusOf(st) == StrOr(st.status, "unknown")

CurrentStepOf(st) == I64OrAsI32(st.currentStep, 0)

TotalStepsOf(st) == I64OrAsI32(st.totalSteps, 1)

\* the step comparison with "differs from" in place of "greater than"
ProgressDue_Differs(st, last) == CurrentStepOf(st) # last /\ CurrentStepOf(st) <= TotalStepsOf(st)

\* the step comparison without the bound by total_steps
ProgressDue_NoUpperBound(st, last) == CurrentStepOf(st) > last

\* "Send progress update if step changed"
ProgressDue(st, last) == CurrentStepOf(st) > last /\ CurrentStepOf(st) <= TotalStepsOf(st)

\* the lookup with current_step itself as the 0-based index
StepAt_OffByOne(st) ==
    IF st.steps.some /\ CurrentStepOf(st) >= 0 /\ CurrentStepOf(st) + 1 <= Len(st.steps.items)
    THEN <<st.steps.items[CurrentStepOf(st) + 1]>>
    ELSE <<>>

\* status["steps"].as_array() and steps.get(current_step - 1): <<>> or <<step>>
StepAt(st) ==
    IF st.steps.some /\ CurrentStepOf(st) >= 1 /\ CurrentStepOf(st) <= Len(st.steps.items)
    THEN <<st.steps.items[CurrentStepOf(st)]>>
    ELSE <<>>

Emoji(action) ==
    CASE action = "discover" -> "magnifier"
      [] action = "filter" -> "target"
      [] action = "enrich" -> "telephone"
      [] action = "audit" -> "globe"
      [] action = "analyze" -> "chart"
      [] action = "draft-email" -> "envelope"
      [] OTHER -> "gear"

capitalize_first(s) ==
    CASE s = "discover" -> "Discover"
      [] s = "filter" -> "Filter"
      [] s = "enrich" -> "Enrich"
      [] s = "audit" -> "Audit"
      [] s = "analyze" -> "Analyze"
      [] s = "draft-email" -> "Draft-email"
      [] s = "scrape" -> "Scrape"
      [] s = "unknown" -> "Unknown"
      [] OTHER -> s

\* content of a notification: the fixed text of its format string and the
\* values formatted into it
Content(text, emoji, subject, current, total) ==
    [text |-> text, emoji |-> emoji, subject |-> subject, current |-> current, total |-> total]

\* the progress message with the zero-based index of the step as its number
ProgressContent_ZeroBased(st) ==
    LET step == StepAt(st)[1]
        action == StrOr(step.action, "unknown")
        step_status == StrOr(step.status, "unknown")
    IN  Content(IF step_status = "completed" THEN "complete!" ELSE "in progress...",
                Emoji(action), capitalize_first(action), CurrentStepOf(st) - 1, TotalStepsOf(st))

\* the format! of the progress message
ProgressContent(st) ==
    LET step == StepAt(st)[1]
        action == StrOr(step.action, "unknown")
        step_status == StrOr(step.status, "unknown")
    IN  Content(IF step_status = "completed" THEN "complete!" ELSE "in progress...",
                Emoji(action), capitalize_first(action), CurrentStepOf(st), TotalStepsOf(st))

TerminalStatuses == {"completed", "failed", "cancelled"}

\* the match with only the completed arm ending the job
IsTerminal_CompletedOnly(st) == JobStatusOf(st) = "completed"

\* "Check if job is complete": does the match arm send a notification
IsTerminal(st) == JobStatusOf(st) \in TerminalStatuses

TerminalContent(st) ==
    CASE JobStatusOf(st) = "completed" ->
            Content("Job completed! Fetching results...", "white_check_mark", "", 0, 0)
      [] JobStatusOf(st) = "failed" ->
            Content("Job failed: ", "cross", StrOr(st.error, "Unknown error"), 0, 0)
      [] JobStatusOf(st) = "cancelled" ->
            Content("Job was cancelled", "stop", "", 0, 0)

\* every message addressed to the channel target of the first session
OutgoingMessage_FirstTarget(self, content) ==
    [channel_type |-> channel_type[self], channel_id |-> channel_id["poller1"],
     content |-> content]

OutgoingMessage(self, content) ==
    [channel_type |-> channel_type[self], channel_id |-> channel_id[self], content |-> content]

\* what the notification is about: a step index, or the end of the job
NotificationOf(content) ==
    CASE content.text \in {"complete!", "in progress..."} ->
            [kind |-> "progress", step |-> content.current]
      [] content.text = "Job completed! Fetching results..." -> [kind |-> "completed", step |-> 0]
      [] content.text = "Job failed: " -> [kind |-> "failed", step |-> 0]
      [] content.text = "Job was cancelled" -> [kind |-> "cancelled", step |-> 0]

\* channel.send(msg) is called by self and succeeds or fails
ChannelSend(self, msg, ok) ==
    /\ outbox' = Append(outbox, [poller |-> self, poll |-> polls[self], ok |-> ok,
                                 channel_id |-> msg.channel_id,
                                 kind |-> NotificationOf(msg.content).kind,
                                 step |-> NotificationOf(msg.content).step])
    /\ call_msgs' = [call_msgs EXCEPT ![self] = Append(@, msg)]

\* the match with an Err arm that gives up instead of retrying
LoopArm_GiveUp(r) ==
    CASE r = "Ok(true)" -> [pc |-> "results", delay |-> 0]
      [] r = "Ok(false)" -> [pc |-> "sleep", delay |-> 3]
      [] r = "Err" -> [pc |-> "done", delay |-> 0]

\* the match with an Ok(true) arm that keeps polling
LoopArm_PollAgain(r) ==
    CASE r = "Ok(true)" -> [pc |-> "sleep", delay |-> 3]
      [] r = "Ok(false)" -> [pc |-> "sleep", delay |-> 3]
      [] r = "Err" -> [pc |-> "sleep", delay |-> 5]

\* the match with the same delay in both sleeping arms
LoopArm_SameDelay(r) ==
    CASE r = "Ok(true)" -> [pc |-> "results", delay |-> 0]
      [] r = "Ok(false)" -> [pc |-> "sleep", delay |-> 3]
      [] r = "Err" -> [pc |-> "sleep", delay |-> 3]

\* the match of run_until_complete on the result of poll_and_notify
LoopArm(r) ==
    CASE r = "Ok(true)" -> [pc |-> "results", delay |-> 0]
      [] r = "Ok(false)" -> [pc |-> "sleep", delay |-> 3]
      [] r = "Err" -> [pc |-> "sleep", delay |-> 5]

\* poll_and_notify returns r to run_until_complete
Return(self, r) ==
    /\ poll_result' = [poll_result EXCEPT ![self] = r]
    /\ errors' = [errors EXCEPT ![self] = IF r = "Err" THEN @ + 1 ELSE @]
    /\ pc' = [pc EXCEPT ![self] = LoopArm(r).pc]
    /\ delay' = [delay EXCEPT ![self] = LoopArm(r).delay]

\* the code of poll_and_notify after the progress block
CheckComplete(self, st) ==
    IF IsTerminal(st)
    THEN /\ pc' = [pc EXCEPT ![self] = "send_terminal"]
         /\ UNCHANGED <<poll_result, errors, delay>>
    ELSE Return(self, "Ok(false)")

PollFailures == {"transport error", "non-success response"}

\* PollJobStatus with the poller's state reset when the status call fails
PollJobStatus_ForgetsStepOnError(self) ==
    /\ pc[self] = "poll"
    /\ polls[self] < MaxPolls
    /\ polls' = [polls EXCEPT ![self] = @ + 1]
    /\ entry_last_step' = [entry_last_step EXCEPT ![self] = last_step[self]]
    /\ requests' = Append(requests, [op |-> "status", job |-> job_id[self], resp |-> ""])
    /\ \/ \E f \in PollFailures :
            /\ status' = [status EXCEPT ![self] = <<>>]
            /\ repeat' = [repeat EXCEPT ![self] = FALSE]
            /\ Return(self, "Err")
            /\ last_step' = [last_step EXCEPT ![self] = 0]
       \/ \E st \in Snapshots :
            /\ status' = [status EXCEPT ![self] = <<st>>]
            /\ repeat' = [repeat EXCEPT ![self] = (status[self] = <<st>>)]
            /\ IF ProgressDue(st, last_step[self])
               THEN IF StepAt(st) # <<>>
                    THEN /\ pc' = [pc EXCEPT ![self] = "send_progress"]
                         /\ UNCHANGED <<last_step, poll_result, errors, delay>>
                    ELSE /\ last_step' = [last_step EXCEPT ![self] = CurrentStepOf(st)]
                         /\ CheckComplete(self, st)
               ELSE /\ UNCHANGED last_step
                    /\ CheckComplete(self, st)
    /\ call_msgs' = [call_msgs EXCEPT ![self] = <<>>]
    /\ UNCHANGED <<started, outbox, ret>>

\* PollJobStatus with last_step assigned inside the if-let of the step entry
PollJobStatus_StaysOnMissingEntry(self) ==
    /\ pc[self] = "poll"
    /\ polls[self] < MaxPolls
    /\ polls' = [polls EXCEPT ![self] = @ + 1]
    /\ entry_last_step' = [entry_last_step EXCEPT ![self] = last_step[self]]
    /\ requests' = Append(requests, [op |-> "status", job |-> job_id[self], resp |-> ""])
    /\ \/ \E f \in PollFailures :
            /\ status' = [status EXCEPT ![self] = <<>>]
            /\ repeat' = [repeat EXCEPT ![self] = FALSE]
            /\ Return(self, "Err")
            /\ UNCHANGED last_step
       \/ \E st \in Snapshots :
            /\ status' = [status EXCEPT ![self] = <<st>>]
            /\ repeat' = [repeat EXCEPT ![self] = (status[self] = <<st>>)]
            /\ IF ProgressDue(st, last_step[self]) /\ StepAt(st) # <<>>
               THEN /\ pc' = [pc EXCEPT ![self] = "send_progress"]
                    /\ UNCHANGED <<last_step, poll_result, errors, delay>>
               ELSE /\ UNCHANGED last_step
                    /\ CheckComplete(self, st)
    /\ call_msgs' = [call_msgs EXCEPT ![self] = <<>>]
    /\ UNCHANGED <<started, outbox, ret>>

\* poll_job_status(...).await? and the code up to the next await
PollJobStatus(self) ==
    /\ pc[self] = "poll"
    /\ polls[self] < MaxPolls
    /\ polls' = [polls EXCEPT ![self] = @ + 1]
    /\ entry_last_step' = [entry_last_step EXCEPT ![self] = last_step[self]]
    /\ requests' = Append(requests, [op |-> "status", job |-> job_id[self], resp |-> ""])
    /\ \/ \E f \in PollFailures :
            /\ status' = [status EXCEPT ![self] = <<>>]
            /\ repeat' = [repeat EXCEPT ![self] = FALSE]
            /\ Return(self, "Err")
            /\ UNCHANGED last_step
       \/ \E st \in Snapshots :
            /\ status' = [status EXCEPT ![self] = <<st>>]
            /\ repeat' = [repeat EXCEPT ![self] = (status[self] = <<st>>)]
            /\ IF ProgressDue(st, last_step[self])
               THEN IF StepAt(st) # <<>>
                    THEN /\ pc' = [pc EXCEPT ![self] = "send_progress"]
                         /\ UNCHANGED <<last_step, poll_result, errors, delay>>
                    ELSE /\ last_step' = [last_step EXCEPT ![self] = CurrentStepOf(st)]
                         /\ CheckComplete(self, st)
               ELSE /\ UNCHANGED last_step
                    /\ CheckComplete(self, st)
    /\ call_msgs' = [call_msgs EXCEPT ![self] = <<>>]
    /\ UNCHANGED <<started, outbox, ret>>

FailedSends == Cardinality({i \in DOMAIN outbox : ~outbox[i].ok})

\* outcomes of the next channel.send call
SendOutcomes == IF FailedSends < MaxSendFailures THEN {TRUE, FALSE} ELSE {TRUE}

\* SendProgress with last_step assigned before the send is awaited
SendProgress_RecordsFirst(self) ==
    /\ pc[self] = "send_progress"
    /\ LET st == status[self][1] IN
       \E ok \in SendOutcomes :
         /\ ChannelSend(self, OutgoingMessage(self, ProgressContent(st)), ok)
         /\ last_step' = [last_step EXCEPT ![self] = CurrentStepOf(st)]
         /\ IF ok THEN CheckComplete(self, st) ELSE Return(self, "Err")
    /\ UNCHANGED <<started, status, entry_last_step, polls, repeat, requests, ret>>

\* channel.send(progress message).await? and the code up to the next await
SendProgress(self) ==
    /\ pc[self] = "send_progress"
    /\ LET st == status[self][1] IN
       \E ok \in SendOutcomes :
         /\ ChannelSend(self, OutgoingMessage(self, ProgressContent(st)), ok)
         /\ IF ok
            THEN /\ last_step' = [last_step EXCEPT ![self] = CurrentStepOf(st)]
                 /\ CheckComplete(self, st)
            ELSE /\ Return(self, "Err")
                 /\ UNCHANGED last_step
    /\ UNCHANGED <<started, status, entry_last_step, polls, repeat, requests, ret>>

\* SendTerminal with the result of the send dropped
SendTerminal_IgnoresFailure(self) ==
    /\ pc[self] = "send_terminal"
    /\ LET st == status[self][1] IN
       \E ok \in SendOutcomes :
         /\ ChannelSend(self, OutgoingMessage(self, TerminalContent(st)), ok)
         /\ Return(self, "Ok(true)")
    /\ UNCHANGED <<started, last_step, status, entry_last_step, polls, repeat, requests, ret>>

\* channel.send(terminal message).await? and the return of poll_and_notify
SendTerminal(self) ==
    /\ pc[self] = "send_terminal"
    /\ LET st == status[self][1] IN
       \E ok \in SendOutcomes :
         /\ ChannelSend(self, OutgoingMessage(self, TerminalContent(st)), ok)
         /\ Return(self, IF ok THEN "Ok(true)" ELSE "Err")
    /\ UNCHANGED <<started, last_step, status, entry_last_step, polls, repeat, requests, ret>>

\* tokio::time::sleep(..).await of either arm, then the next loop iteration
Sleep(self) ==
    /\ pc[self] = "sleep"
    /\ pc' = [pc EXCEPT ![self] = "poll"]
    /\ UNCHANGED <<started, last_step, status, entry_last_step, polls, poll_result,
                   repeat, errors, delay, outbox, call_msgs, requests, ret>>

ResultDocs == {"two businesses", "no businesses"}

ResultFailures == {"transport error", "non-success response"}

\* a failed fetch of the results handled like a failed poll: back to the loop
GetJobResults_Retries(self) ==
    /\ pc[self] = "results"
    /\ \/ \E d \in ResultDocs :
            /\ requests' = Append(requests, [op |-> "results", job |-> job_id[self], resp |-> d])
            /\ ret' = [ret EXCEPT ![self] = [kind |-> "Ok", job |-> job_id[self], value |-> d]]
            /\ pc' = [pc EXCEPT ![self] = "done"]
       \/ \E f \in ResultFailures :
            /\ requests' = Append(requests, [op |-> "results", job |-> job_id[self], resp |-> f])
            /\ ret' = ret
            /\ pc' = [pc EXCEPT ![self] = "poll"]
    /\ UNCHANGED <<started, last_step, status, entry_last_step, polls, poll_result,
                   repeat, errors, delay, outbox, call_msgs>>

\* return get_job_results(&self.job_id, &self.harness_url).await
GetJobResults(self) ==
    /\ pc[self] = "results"
    /\ \/ \E d \in ResultDocs :
            /\ requests' = Append(requests, [op |-> "results", job |-> job_id[self], resp |-> d])
            /\ ret' = [ret EXCEPT ![self] = [kind |-> "Ok", job |-> job_id[self], value |-> d]]
       \/ \E f \in ResultFailures :
            /\ requests' = Append(requests, [op |-> "results", job |-> job_id[self], resp |-> f])
            /\ ret' = [ret EXCEPT ![self] = [kind |-> "Err", job |-> job_id[self], value |-> f]]
    /\ pc' = [pc EXCEPT ![self] = "done"]
    /\ UNCHANGED <<started, last_step, status, entry_last_step, polls, poll_result,
                   repeat, errors, delay, outbox, call_msgs>>

\* client.get(..).send().await of poll_job_status or get_job_results when
\* the executor service never answers: the client is reqwest::Client::new(),
\* which has no timeout, so the await does not complete
Unanswered(self) ==
    /\ pc[self] \in {"poll", "results"}
    /\ requests' = Append(requests, [op |-> IF pc[self] = "poll" THEN "status" ELSE "results",
                                     job |-> job_id[self], resp |-> "none"])
    /\ pc' = [pc EXCEPT ![self] = "blocked"]
    /\ UNCHANGED <<started, last_step, status, entry_last_step, polls, poll_result,
                   repeat, errors, delay, outbox, call_msgs, ret>>

NotReturned == [kind |-> "pending", job |-> "", value |-> ""]

\* JobPoller::new for every poller; the sessions in s are driven
InitWith(s) ==
    /\ started = s
    /\ pc = [p \in Pollers |-> IF p \in s THEN "poll" ELSE "idle"]
    /\ last_step = [p \in Pollers |-> 0]
    /\ status = [p \in Pollers |-> <<>>]
    /\ entry_last_step = [p \in Pollers |-> 0]
    /\ polls = [p \in Pollers |-> 0]
    /\ poll_result = [p \in Pollers |-> "none"]
    /\ repeat = [p \in Pollers |-> FALSE]
    /\ errors = [p \in Pollers |-> 0]
    /\ delay = [p \in Pollers |-> 0]
    /\ outbox = <<>>
    /\ call_msgs = [p \in Pollers |-> <<>>]
    /\ requests = <<>>
    /\ ret = [p \in Pollers |-> NotReturned]

\* ------------------------------------------------------------------------
\* Language-model calls: generate_job_plan and generate_recovery_plan
\* ------------------------------------------------------------------------

\* longest JSON array the model answers with, and length of the plan a
\* failed step belongs to
MaxPlanLen == 3

\* text of content[0].text: the tokens before the payload, the payload, and
\* the tokens after it.  "ws" is a run of whitespace, "fence_json" is the
\* code fence of three backticks followed by json, "fence" the fence of
\* three backticks, "json" the word left of a "fence_json" whose backticks
\* were stripped
Text(lead, payload, trail) == [lead |-> lead, payload |-> payload, trail |-> trail]

\* str::trim on the token sequences
TrimStart(s) == IF s # <<>> /\ Head(s) = "ws" THEN Tail(s) ELSE s

TrimEnd(s) == IF s # <<>> /\ s[Len(s)] = "ws" THEN SubSeq(s, 1, Len(s) - 1) ELSE s

RECURSIVE TrimStartMatches(_, _)
\* str::trim_start_matches(pat): removes pat from the front as often as it
\* matches; "fence" also matches the backticks of a leading "fence_json"
TrimStartMatches(s, pat) ==
    IF s = <<>> THEN s
    ELSE IF Head(s) = pat THEN TrimStartMatches(Tail(s), pat)
    ELSE IF pat = "fence" /\ Head(s) = "fence_json" THEN <<"json">> \o Tail(s)
    ELSE s

RECURSIVE TrimEndMatches(_, _)
\* str::trim_end_matches(pat)
TrimEndMatches(s, pat) ==
    IF s = <<>> THEN s
    ELSE IF s[Len(s)] = pat THEN TrimEndMatches(SubSeq(s, 1, Len(s) - 1), pat)
    ELSE s

\* content.trim(), trim_start_matches of the json fence, trim_start_matches
\* of the fence, trim_end_matches of the fence, trim()
StripFences(t) ==
    LET lead1 == TrimStartMatches(TrimStartMatches(TrimStart(t.lead), "fence_json"), "fence")
        trail1 == TrimEndMatches(TrimEnd(t.trail), "fence")
    IN  Text(TrimStart(lead1), t.payload, TrimEnd(trail1))

\* serde_json::from_str accepts one JSON value with whitespace around it
ParsesAsJson(t) ==
    /\ t.payload.type # "invalid"
    /\ \A i \in DOMAIN t.lead : t.lead[i] = "ws"
    /\ \A i \in DOMAIN t.trail : t.trail[i] = "ws"

\* JSON payloads: an array of items, an object with the recovery fields, or
\* text that is no JSON value
JsonArray(items) ==
    [type |-> "array", items |-> items, decision |-> NoStr, reason |-> NoStr,
     modified_step |-> <<>>]

JsonObject(decision, reason, modified_step) ==
    [type |-> "object", items |-> <<>>, decision |-> decision, reason |-> reason,
     modified_step |-> modified_step]

InvalidJson ==
    [type |-> "invalid", items |-> <<>>, decision |-> NoStr, reason |-> NoStr,
     modified_step |-> <<>>]

\* the ways the model wraps its answer
Wrappings ==
    {<< <<>>, <<>> >>,
     << <<"ws">>, <<"ws">> >>,
     << <<"fence_json", "ws">>, <<"ws", "fence">> >>,
     << <<"fence", "ws">>, <<"ws", "fence", "ws">> >>,
     << <<"fence_json", "ws">>, <<>> >>,
     << <<"fence", "fence_json", "ws">>, <<"ws", "fence">> >>,
     << <<"ws">>, <<"ws", "fence_json">> >>}

TextsOf(payloads) == {Text(w[1], p, w[2]) : w \in Wrappings, p \in payloads}

\* elements of the array the planning model answers with: action, the order
\* the model echoes (-1: none) and params
PlanItems ==
    {[action |-> "discover", order |-> 5, params |-> "niche=hvac"],
     [action |-> "enrich", order |-> 1, params |-> "null"],
     [action |-> NoStr, order |-> -1, params |-> "businesses=from_step_1"]}

PlanPayloads ==
    {JsonArray(items) : items \in UNION {[1..n -> PlanItems] : n \in 0..MaxPlanLen}}
    \cup {JsonObject(NoStr, NoStr, <<>>), InvalidJson}

\* "modified_step" of a recovery answer: <<>> when it is no object
ModifiedSteps ==
    {<<>>, <<[action |-> NoStr, params |-> "null"]>>,
     <<[action |-> "audit", params |-> "url=example.com"]>>}

Decisions == {"SKIP", "RETRY", "ALTERNATIVE", "ABORT", "skip", NoStr}

Reasons == {NoStr, "site unreachable"}

RecoveryPayloads ==
    {JsonObject(d, r, m) : d \in Decisions, r \in Reasons, m \in ModifiedSteps}
    \cup {JsonArray(<<>>), InvalidJson}

\* body of the HTTP response of POST /v1/messages
NotJsonBody == [is_json |-> FALSE, has_text |-> FALSE, text |-> Text(<<>>, InvalidJson, <<>>)]

NoTextBody == [is_json |-> TRUE, has_text |-> FALSE, text |-> Text(<<>>, InvalidJson, <<>>)]

TextBody(t) == [is_json |-> TRUE, has_text |-> TRUE, text |-> t]

\* the responses the call may receive: with a success status and with a
\* non-success status, each with any body
HttpResponses(payloads) ==
    {[arrived |-> TRUE, success |-> s, body |-> b] :
        s \in BOOLEAN, b \in {NotJsonBody, NoTextBody} \cup {TextBody(t) : t \in TextsOf(payloads)}}

\* nanoid::nanoid!(10): the n-th string drawn, ten symbols long; two draws
\* are taken to give different strings
nanoid(n) == [len |-> 10, draw |-> n]

JobStep(id, order, action, params, st) ==
    [id |-> id, order |-> order, action |-> action, params |-> params, status |-> st]

\* anyhow errors, by message
Error(msg, detail) == [msg |-> msg, detail |-> detail]

Ok(description, steps, draws) ==
    [kind |-> "Ok", description |-> description, steps |-> steps,
     error |-> Error("", ""), draws |-> draws]

Err(e) == [kind |-> "Err", description |-> "", steps |-> <<>>, error |-> e, draws |-> 0]

\* content[0].text.as_str().ok_or_else(..)? and from_str(json_str)?: the
\* error, or <<>> and the decoded payload
DecodeText(body, want_array) ==
    IF ~body.is_json THEN <<Error("error decoding response body", "")>>
    ELSE IF ~body.has_text THEN <<Error("No content in LLM response", "")>>
    ELSE IF ~ParsesAsJson(StripFences(body.text)) THEN <<Error("serde_json", "syntax")>>
    ELSE IF want_array /\ StripFences(body.text).payload.type # "array"
         THEN <<Error("serde_json", "invalid type")>>
    ELSE <<>>

\* the enumerate/map with the order the model echoed kept when there is one
PlanSteps_TrustOrder(items, drawn) ==
    [i \in 1..Len(items) |->
        JobStep(nanoid(drawn + i), IF items[i].order >= 0 THEN items[i].order ELSE i,
                StrOr(items[i].action, "unknown"), items[i].params, "pending")]

\* steps_array.into_iter().enumerate().map(..).collect(); drawn nanoids were
\* taken before
PlanSteps(items, drawn) ==
    [i \in 1..Len(items) |->
        JobStep(nanoid(drawn + i), i, StrOr(items[i].action, "unknown"),
                items[i].params, "pending")]

\* generate_job_plan after response.json()
JobPlanOf(user_message, body, drawn) ==
    IF DecodeText(body, TRUE) # <<>> THEN Err(DecodeText(body, TRUE)[1])
    ELSE LET items == StripFences(body.text).payload.items
         IN  Ok(user_message, PlanSteps(items, drawn), Len(items))

\* the match with a SKIP arm that keeps the failed step in the plan
RecoveryOf_SkipKeepsFailed(failed_step, remaining_steps, recovery, drawn) ==
    CASE recovery.decision = "SKIP" -> Ok("", <<failed_step>> \o remaining_steps, 0)
      [] recovery.decision \in {"RETRY", "ALTERNATIVE"} ->
            IF recovery.modified_step # <<>>
            THEN Ok("", <<JobStep(nanoid(drawn + 1), failed_step.order,
                                  StrOr(recovery.modified_step[1].action, failed_step.action),
                                  recovery.modified_step[1].params, "pending")>>
                        \o remaining_steps, 1)
            ELSE Ok("", remaining_steps, 0)
      [] OTHER -> Err(Error("Recovery aborted: ", StrOr(recovery.reason, "Unknown reason")))

\* the match with a wildcard arm that continues with the remaining steps
RecoveryOf_UnknownContinues(failed_step, remaining_steps, recovery, drawn) ==
    CASE recovery.decision = "SKIP" -> Ok("", remaining_steps, 0)
      [] recovery.decision \in {"RETRY", "ALTERNATIVE"} ->
            IF recovery.modified_step # <<>>
            THEN Ok("", <<JobStep(nanoid(drawn + 1), failed_step.order,
                                  StrOr(recovery.modified_step[1].action, failed_step.action),
                                  recovery.modified_step[1].params, "pending")>>
                        \o remaining_steps, 1)
            ELSE Ok("", remaining_steps, 0)
      [] recovery.decision = "ABORT" ->
            Err(Error("Recovery aborted: ", StrOr(recovery.reason, "Unknown reason")))
      [] OTHER -> Ok("", remaining_steps, 0)

\* the match with the replacement numbered by its place in the new list
RecoveryOf_OrderFromPosition(failed_step, remaining_steps, recovery, drawn) ==
    CASE recovery.decision = "SKIP" -> Ok("", remaining_steps, 0)
      [] recovery.decision \in {"RETRY", "ALTERNATIVE"} ->
            IF recovery.modified_step # <<>>
            THEN Ok("", <<JobStep(nanoid(drawn + 1), 1,
                                  StrOr(recovery.modified_step[1].action, failed_step.action),
                                  recovery.modified_step[1].params, "pending")>>
                        \o remaining_steps, 1)
            ELSE Ok("", remaining_steps, 0)
      [] OTHER -> Err(Error("Recovery aborted: ", StrOr(recovery.reason, "Unknown reason")))

\* the match with the replacement built from a clone of the failed step
RecoveryOf_KeepsFailedId(failed_step, remaining_steps, recovery, drawn) ==
    CASE recovery.decision = "SKIP" -> Ok("", remaining_steps, 0)
      [] recovery.decision \in {"RETRY", "ALTERNATIVE"} ->
            IF recovery.modified_step # <<>>
            THEN Ok("", <<JobStep(failed_step.id, failed_step.order,
                                  StrOr(recovery.modified_step[1].action, failed_step.action),
                                  recovery.modified_step[1].params, "pending")>>
                        \o remaining_steps, 0)
            ELSE Ok("", remaining_steps, 0)
      [] OTHER -> Err(Error("Recovery aborted: ", StrOr(recovery.reason, "Unknown reason")))

\* the match with a RETRY arm that fails when there is no replacement step
RecoveryOf_RetryNeedsStep(failed_step, remaining_steps, recovery, drawn) ==
    CASE recovery.decision = "SKIP" -> Ok("", remaining_steps, 0)
      [] recovery.decision \in {"RETRY", "ALTERNATIVE"} ->
            IF recovery.modified_step # <<>>
            THEN Ok("", <<JobStep(nanoid(drawn + 1), failed_step.order,
                                  StrOr(recovery.modified_step[1].action, failed_step.action),
                                  recovery.modified_step[1].params, "pending")>>
                        \o remaining_steps, 1)
            ELSE Err(Error("Recovery aborted: ", "no modified_step"))
      [] OTHER -> Err(Error("Recovery aborted: ", StrOr(recovery.reason, "Unknown reason")))

\* the match with a SKIP arm that also drops the step after the failed one
RecoveryOf_SkipDropsNext(failed_step, remaining_steps, recovery, drawn) ==
    CASE recovery.decision = "SKIP" ->
            Ok("", IF remaining_steps = <<>> THEN <<>> ELSE Tail(remaining_steps), 0)
      [] recovery.decision \in {"RETRY", "ALTERNATIVE"} ->
            IF recovery.modified_step # <<>>
            THEN Ok("", <<JobStep(nanoid(drawn + 1), failed_step.order,
                                  StrOr(recovery.modified_step[1].action, failed_step.action),
                                  recovery.modified_step[1].params, "pending")>>
                        \o remaining_steps, 1)
            ELSE Ok("", remaining_steps, 0)
      [] OTHER -> Err(Error("Recovery aborted: ", StrOr(recovery.reason, "Unknown reason")))

\* match recovery["decision"].as_str() of generate_recovery_plan
RecoveryOf(failed_step, remaining_steps, recovery, drawn) ==
    CASE recovery.decision = "SKIP" -> Ok("", remaining_steps, 0)
      [] recovery.decision \in {"RETRY", "ALTERNATIVE"} ->
            IF recovery.modified_step # <<>>
            THEN Ok("", <<JobStep(nanoid(drawn + 1), failed_step.order,
                                  StrOr(recovery.modified_step[1].action, failed_step.action),
                                  recovery.modified_step[1].params, "pending")>>
                        \o remaining_steps, 1)
            ELSE Ok("", remaining_steps, 0)
      [] OTHER -> Err(Error("Recovery aborted: ", StrOr(recovery.reason, "Unknown reason")))

\* generate_recovery_plan after response.json()
RecoveryPlanOf(failed_step, remaining_steps, body, drawn) ==
    IF DecodeText(body, FALSE) # <<>> THEN Err(DecodeText(body, FALSE)[1])
    ELSE RecoveryOf(failed_step, remaining_steps, StripFences(body.text).payload, drawn)

RunningActions == <<"discover", "filter", "enrich", "draft-email">>

\* the plan a failed step belongs to: generated and run before the failure
RunningPlan ==
    [i \in 1..MaxPlanLen |->
        JobStep(nanoid(i), i, RunningActions[((i - 1) % Len(RunningActions)) + 1],
                "params", "pending")]

UserMessages == {"find hvac companies in Miami and get me the point of contact"}

StepErrors == {"timeout"}

VARIABLES
    planner_pc,    \* where the language-model call is
    planner_in,    \* arguments of the call
    planner_http,  \* the HTTP response of the call
    planner_ret,   \* return value of the call
    llm_calls,     \* POST /v1/messages requests sent so far
    nanoids        \* nanoid strings drawn so far

plannerVars == <<planner_pc, planner_in, planner_http, planner_ret, llm_calls, nanoids>>

NoArgs == [op |-> "none", user_message |-> "", failed |-> 0, error |-> ""]

NoResponse == [arrived |-> FALSE, success |-> FALSE, body |-> NotJsonBody]

NoReturn == [kind |-> "pending", description |-> "", steps |-> <<>>,
             error |-> Error("", ""), draws |-> 0]

\* llm_client.post(..).send().await? of either function: the request fails
\* in transport, or a response arrives
LlmSend(args, payloads, body_pc) ==
    /\ planner_pc = "idle"
    /\ planner_in' = args
    /\ llm_calls' = llm_calls + 1
    /\ \/ /\ planner_ret' = Err(Error("error sending request", ""))
          /\ planner_pc' = "done"
          /\ UNCHANGED planner_http
       \/ \E r \in HttpResponses(payloads) :
            /\ planner_http' = r
            /\ planner_pc' = body_pc
            /\ UNCHANGED planner_ret
    /\ UNCHANGED nanoids

\* generate_job_plan up to send().await?
GenerateJobPlan_Send ==
    \E m \in UserMessages :
        LlmSend([op |-> "plan", user_message |-> m, failed |-> 0, error |-> ""],
                PlanPayloads, "plan_body")

\* response.json().await? of generate_job_plan and the rest of the function
GenerateJobPlan_Decode ==
    /\ planner_pc = "plan_body"
    /\ planner_ret' = JobPlanOf(planner_in.user_message, planner_http.body, nanoids)
    /\ nanoids' = nanoids + planner_ret'.draws
    /\ planner_pc' = "done"
    /\ UNCHANGED <<planner_in, planner_http, llm_calls>>

\* the arguments of generate_recovery_plan when step k of the plan failed
FailedStepOf(k) == [RunningPlan[k] EXCEPT !.status = "failed"]

RemainingStepsOf(k) == SubSeq(RunningPlan, k + 1, MaxPlanLen)

\* generate_recovery_plan up to send().await?
GenerateRecoveryPlan_Send ==
    \E k \in 1..MaxPlanLen : \E e \in StepErrors :
        LlmSend([op |-> "recovery", user_message |-> "", failed |-> k, error |-> e],
                RecoveryPayloads, "recovery_body")

\* response.json().await? of generate_recovery_plan and the rest of the function
GenerateRecoveryPlan_Decode ==
    /\ planner_pc = "recovery_body"
    /\ planner_ret' = RecoveryPlanOf(FailedStepOf(planner_in.failed),
                                     RemainingStepsOf(planner_in.failed),
                                     planner_http.body, nanoids)
    /\ nanoids' = nanoids + planner_ret'.draws
    /\ planner_pc' = "done"
    /\ UNCHANGED <<planner_in, planner_http, llm_calls>>

\* no language-model call is in progress; the running plan's ids were drawn
PlannerInit ==
    /\ planner_pc = "idle"
    /\ planner_in = NoArgs
    /\ planner_http = NoResponse
    /\ planner_ret = NoReturn
    /\ llm_calls = 0
    /\ nanoids = MaxPlanLen

\* ------------------------------------------------------------------------
\* Complexity classification: is_complex_request
\* ------------------------------------------------------------------------

\* most words of a user message, and most prior tool results
MaxWords == 2

MaxToolResults == 2

\* a string is the sequence of its characters
UpperLetters ==
    <<"A", "B", "C", "D", "E", "F", "G", "H", "I", "J", "K", "L", "M", "N", "O", "P", "Q", "R", "S", "T", "U", "V", "W", "X", "Y", "Z">>

LowerLetters ==
    <<"a", "b", "c", "d", "e", "f", "g", "h", "i", "j", "k", "l", "m", "n", "o", "p", "q", "r", "s", "t", "u", "v", "w", "x", "y", "z">>

\* str::to_lowercase without the lowering of the letters
to_lowercase_Verbatim(s) == s

\* str::to_lowercase on the letters of the messages
to_lowercase(s) ==
    [i \in DOMAIN s |->
        IF \E k \in DOMAIN UpperLetters : UpperLetters[k] = s[i]
        THEN LowerLetters[CHOOSE k \in DOMAIN UpperLetters : UpperLetters[k] = s[i]]
        ELSE s[i]]

RECURSIVE contains(_, _)
\* str::contains(pat): pat is found at the front, or in the rest
contains(s, pat) ==
    IF Len(s) < Len(pat) THEN FALSE
    ELSE IF SubSeq(s, 1, Len(pat)) = pat THEN TRUE
    ELSE contains(Tail(s), pat)

RECURSIVE matches_count(_, _)
\* str::matches(pat).count(): the matches are found left to right and do
\* not overlap
matches_count(s, pat) ==
    IF Len(s) < Len(pat) THEN 0
    ELSE IF SubSeq(s, 1, Len(pat)) = pat
         THEN 1 + matches_count(SubSeq(s, Len(pat) + 1, Len(s)), pat)
    ELSE matches_count(Tail(s), pat)

multi_step_keywords ==
    <<<<"a", "n", "d", " ", "t", "h", "e", "n">>,
      <<"a", "f", "t", "e", "r", " ", "t", "h", "a", "t">>,
      <<"n", "e", "x", "t">>,
      <<"f", "o", "l", "l", "o", "w", "e", "d", " ", "b", "y">>,
      <<"a", "n", "d", " ", "g", "e", "t", " ", "m", "e">>,
      <<"t", "h", "e", "n", " ", "d", "r", "a", "f", "t">>,
      <<"t", "h", "e", "n", " ", "s", "e", "n", "d">>,
      <<"a", "n", "a", "l", "y", "z", "e", " ", "a", "n", "d">>,
      <<"f", "i", "n", "d", " ", "a", "n", "d">>,
      <<"g", "e", "t", " ", "m", "e", " ", "t", "h", "e">>>>

complex_indicators ==
    <<<<"p", "o", "i", "n", "t", " ", "o", "f", " ", "c", "o", "n", "t", "a", "c", "t">>,
      <<"c", "o", "n", "t", "a", "c", "t", " ", "i", "n", "f", "o">>,
      <<"o", "w", "n", "e", "r", " ", "e", "m", "a", "i", "l">>,
      <<"d", "e", "c", "i", "s", "i", "o", "n", " ", "m", "a", "k", "e", "r">>,
      <<"a", "n", "a", "l", "y", "z", "e">>,
      <<"c", "o", "m", "p", "a", "r", "e">>,
      <<"r", "a", "n", "k">>,
      <<"d", "r", "a", "f", "t", " ", "e", "m", "a", "i", "l">>,
      <<"o", "u", "t", "r", "e", "a", "c", "h">>>>

\* the five patterns of the action count
action_verbs ==
    <<<<"f", "i", "n", "d">>, <<"g", "e", "t">>, <<"a", "n", "a", "l", "y", "z", "e">>, <<"d", "r", "a", "f", "t">>, <<"s", "e", "n", "d">>>>

\* the action count with every verb counted once however often it occurs
action_count_OncePerVerb(message_lower) ==
    Cardinality({k \in DOMAIN action_verbs : contains(message_lower, action_verbs[k])})

\* sum of the five matches(..).count()
action_count(message_lower) ==
    matches_count(message_lower, action_verbs[1])
    + matches_count(message_lower, action_verbs[2])
    + matches_count(message_lower, action_verbs[3])
    + matches_count(message_lower, action_verbs[4])
    + matches_count(message_lower, action_verbs[5])

\* is_complex_request with any prior tool result taken for several
is_complex_request_AnyToolResult(user_message, tool_results) ==
    LET message_lower == to_lowercase(user_message)
    IN  IF \E k \in DOMAIN multi_step_keywords :
              contains(message_lower, multi_step_keywords[k]) THEN TRUE
        ELSE IF action_count(message_lower) >= 2 THEN TRUE
        ELSE IF \E k \in DOMAIN complex_indicators :
                   contains(message_lower, complex_indicators[k]) THEN TRUE
        ELSE IF Len(tool_results) > 0 THEN TRUE
        ELSE FALSE

\* is_complex_request: the keyword loop, the action count, the indicator
\* loop and the tool results, in the order of the code
is_complex_request(user_message, tool_results) ==
    LET message_lower == to_lowercase(user_message)
    IN  IF \E k \in DOMAIN multi_step_keywords :
              contains(message_lower, multi_step_keywords[k]) THEN TRUE
        ELSE IF action_count(message_lower) >= 2 THEN TRUE
        ELSE IF \E k \in DOMAIN complex_indicators :
                   contains(message_lower, complex_indicators[k]) THEN TRUE
        ELSE IF Len(tool_results) > 1 THEN TRUE
        ELSE FALSE

\* the words user messages are made of, in lower case
Words ==
    {<<"f", "i", "n", "d">>,
     <<"b", "u", "d", "g", "e", "t">>,
     <<"a", "n", "d">>,
     <<"t", "h", "e", "n">>,
     <<"d", "r", "a", "f", "t">>,
     <<"e", "m", "a", "i", "l">>,
     <<"h", "v", "a", "c">>,
     <<"n", "e", "x", "t", "d", "o", "o", "r">>}

\* the letter cases a message is typed in
Styles == {"lower", "UPPER", "Capitalized"}

\* word w typed in style c
Typed(w, c) ==
    [i \in DOMAIN w |->
        IF (c = "UPPER" \/ (c = "Capitalized" /\ i = 1))
           /\ \E k \in DOMAIN LowerLetters : LowerLetters[k] = w[i]
        THEN UpperLetters[CHOOSE k \in DOMAIN LowerLetters : LowerLetters[k] = w[i]]
        ELSE w[i]]

RECURSIVE Sentence(_, _)
\* the words ws typed in style c with one space between them
Sentence(ws, c) ==
    IF ws = <<>> THEN <<>>
    ELSE IF Len(ws) = 1 THEN Typed(ws[1], c)
    ELSE Typed(ws[1], c) \o <<" ">> \o Sentence(Tail(ws), c)

\* the calls of is_complex_request: the words and the letter case of the
\* message, and the tool results
Requests ==
    [words : UNION {[1..n -> Words] : n \in 1..MaxWords},
     style : Styles,
     tool_results : {[i \in 1..n |-> "tool result"] : n \in 0..MaxToolResults}]

NoRequest == [words |-> <<>>, style |-> "lower", tool_results |-> <<>>]

VARIABLES
    request,       \* the call of is_complex_request
    is_complex     \* <<>> until it returns, then the value returned

classifierVars == <<request, is_complex>>

\* is_complex_request(user_message, tool_results) is called and returns
IsComplexRequest ==
    /\ request # NoRequest
    /\ is_complex = <<>>
    /\ is_complex' = <<is_complex_request(Sentence(request.words, request.style),
                                          request.tool_results)>>
    /\ UNCHANGED request

\* no call of is_complex_request
ClassifierIdle == request = NoRequest /\ is_complex = <<>>

\* ------------------------------------------------------------------------
\* Result formatting: format_job_results
\* ------------------------------------------------------------------------

\* most entries of the businesses list and of the contacts list
MaxEntries == 15

\* entries of a list that are shown: take(10), len() > 10, len() - 10
ListLimit == 10

\* one line of the output: what it is, the number it prints, its text and
\* the optional parts it prints
Line(kind, n, text, detail) == [kind |-> kind, n |-> n, text |-> text, detail |-> detail]

BlankLine == Line("blank", 0, "", <<>>)

\* the optional part named tag, printed when it is there
Part(present, tag) == IF present THEN <<tag>> ELSE <<>>

\* a printed line for a field that is a string
FieldLine(kind, value) == IF value = NoStr THEN <<>> ELSE <<Line(kind, 0, value, <<>>)>>

\* results["job"]: description and status lines, then a blank line
JobBlock(job) ==
    IF ~job.some THEN <<>>
    ELSE FieldLine("task", job.description) \o FieldLine("status", job.status) \o <<BlankLine>>

\* body of the loop over the businesses: the numbered line with the name,
\* rating and review count, then phone, website and a blank line
BusinessEntry(i, business) ==
    <<Line("business", i + 1, StrOr(business.name, "Unknown"),
           Part(business.rating, "rating") \o Part(business.reviewCount, "reviews"))>>
    \o FieldLine("phone", business.phone)
    \o FieldLine("website", business.website)
    \o <<BlankLine>>

\* body of the loop over the contacts: the numbered line only for a contact
\* with a name, then email, phone and a blank line
ContactEntry(i, contact) ==
    (IF contact.name # NoStr
     THEN <<Line("contact", i + 1, contact.name, Part(contact.role # NoStr, contact.role))>>
     ELSE <<>>)
    \o FieldLine("email", contact.email)
    \o FieldLine("phone", contact.phone)
    \o <<BlankLine>>

RECURSIVE Concat(_)
\* the pieces pushed onto the output one after the other
Concat(pieces) == IF pieces = <<>> THEN <<>> ELSE Head(pieces) \o Concat(Tail(pieces))

\* the body of the loop over the list named heading
Entry(heading, i, item) ==
    IF heading = "businesses" THEN BusinessEntry(i, item) ELSE ContactEntry(i, item)

\* for (i, item) in items.iter().take(ListLimit).enumerate()
Taken(items, heading) ==
    Concat([k \in 1..(IF Len(items) < ListLimit THEN Len(items) ELSE ListLimit) |->
               Entry(heading, k - 1, items[k])])

\* the line for the entries left out, printing the length of the list
MoreLine_CountsAll(len) ==
    IF len > ListLimit THEN <<Line("more", len, "", <<>>), BlankLine>> ELSE <<>>

\* if len > 10 { "...and {} more" with len - 10 }
MoreLine(len) ==
    IF len > ListLimit THEN <<Line("more", len - ListLimit, "", <<>>), BlankLine>> ELSE <<>>

\* the block of a list that is an array and not empty: heading, the entries
\* taken, and the line for the entries left out
ListBlock(list, heading) ==
    IF ~list.some \/ list.items = <<>> THEN <<>>
    ELSE <<Line(heading, Len(list.items), "", <<>>), BlankLine>>
         \o Taken(list.items, heading)
         \o MoreLine(Len(list.items))

\* format_job_results: the output as the sequence of its lines
format_job_results(results) ==
    <<Line("title", 0, "Job Results", <<>>), BlankLine>>
    \o JobBlock(results.job)
    \o ListBlock(results.businesses, "businesses")
    \o ListBlock(results.contacts, "contacts")

BusinessNames == <<"Acme Air", NoStr, "Bolt HVAC", "Cool Co">>

\* the k-th business of a results document
Business(k) ==
    [name |-> BusinessNames[(k % 4) + 1],
     rating |-> (k % 2 = 0),
     reviewCount |-> (k % 3 = 0),
     phone |-> IF k % 2 = 1 THEN "555-0100" ELSE NoStr,
     website |-> IF k % 3 = 1 THEN "example.com" ELSE NoStr]

ContactNames == <<"Ann", "Bob", NoStr>>

\* the k-th contact of a results document
Contact(k) ==
    [name |-> ContactNames[(k % 3) + 1],
     email |-> IF k % 2 = 0 THEN "owner@example.com" ELSE NoStr,
     phone |-> IF k % 4 = 1 THEN "555-0101" ELSE NoStr,
     role |-> IF k % 2 = 1 THEN "Owner" ELSE NoStr]

\* a field that is no array, and the arrays of up to MaxEntries entries
NoList == [some |-> FALSE, items |-> <<>>]

BusinessLists ==
    {NoList} \cup {[some |-> TRUE, items |-> [k \in 1..n |-> Business(k)]] : n \in 0..MaxEntries}

ContactLists ==
    {NoList} \cup {[some |-> TRUE, items |-> [k \in 1..n |-> Contact(k)]] : n \in 0..MaxEntries}

JobInfos ==
    {[some |-> FALSE, description |-> NoStr, status |-> NoStr],
     [some |-> TRUE, description |-> "find hvac companies", status |-> "completed"]}

\* the results documents format_job_results is called with
ResultDocuments == [job : JobInfos, businesses : BusinessLists, contacts : ContactLists]

NoDocument == [job |-> [some |-> FALSE, description |-> NoStr, status |-> NoStr],
               businesses |-> NoList, contacts |-> NoList]

VARIABLES
    results,       \* the document format_job_results is called with
    output         \* <<>> until it returns, then the lines of the string returned

formatterVars == <<results, output>>

\* format_job_results(results) is called and returns
FormatJobResults ==
    /\ output = <<>>
    /\ output' = format_job_results(results)
    /\ UNCHANGED results

\* no call of format_job_results
FormatterIdle == results = NoDocument /\ output = <<>>

\* ------------------------------------------------------------------------
\* A plan and the recoveries applied to it
\* ------------------------------------------------------------------------

\* most recoveries applied to one plan
MaxRecoveries == 3

VARIABLES
    chain_pc,      \* "idle", "start" before the plan is generated, "running" after
    plan,          \* the steps still to run
    original,      \* the steps as generate_job_plan returned them
    created,       \* the ids of all steps created, oldest first
    recoveries     \* generate_recovery_plan calls that returned Ok

chainVars == <<chain_pc, plan, original, created, recoveries>>

\* the response bodies that carry a text
TextBodies(payloads) == {TextBody(t) : t \in TextsOf(payloads)}

\* generate_job_plan returns Ok(plan)
PlanGenerated ==
    /\ chain_pc = "start"
    /\ \E m \in UserMessages : \E body \in TextBodies(PlanPayloads) :
          LET r == JobPlanOf(m, body, nanoids)
          IN  /\ r.kind = "Ok"
              /\ plan' = r.steps
              /\ original' = r.steps
              /\ created' = [i \in DOMAIN r.steps |-> r.steps[i].id]
              /\ nanoids' = nanoids + r.draws
    /\ chain_pc' = "running"
    /\ UNCHANGED recoveries

\* the first step of the plan failed and generate_recovery_plan, called with
\* it and the steps after it, returns Ok(steps)
Recovered ==
    /\ chain_pc = "running"
    /\ plan # <<>>
    /\ recoveries < MaxRecoveries
    /\ \E body \in TextBodies(RecoveryPayloads) :
          LET r == RecoveryPlanOf([Head(plan) EXCEPT !.status = "failed"], Tail(plan),
                                  body, nanoids)
          IN  /\ r.kind = "Ok"
              /\ plan' = r.steps
              /\ created' = IF Len(r.steps) = Len(plan)
                            THEN Append(created, r.steps[1].id) ELSE created
              /\ nanoids' = nanoids + r.draws
    /\ recoveries' = recoveries + 1
    /\ UNCHANGED <<chain_pc, original>>

\* no plan is followed
ChainIdle ==
    /\ chain_pc = "idle"
    /\ plan = <<>>
    /\ original = <<>>
    /\ created = <<>>
    /\ recoveries = 0

\* the state of the calls of the functions that no poll session makes
functionVars == <<classifierVars, formatterVars, chainVars>>

\* none of these functions is called
FunctionsIdle == ClassifierIdle /\ FormatterIdle /\ ChainIdle

\* ------------------------------------------------------------------------
\* Cancellation and observation of the poll sessions
\* ------------------------------------------------------------------------

VARIABLES
    cancelled,     \* the sessions whose run_until_complete future was dropped
    seen           \* what each status call of a session returned, in order

observerVars == <<cancelled, seen>>

ObserverInit ==
    /\ cancelled = {}
    /\ seen = [p \in Pollers |-> <<>>]

vars == <<pollerVars, plannerVars, observerVars, functionVars>>

\* the .await points of run_until_complete
SuspendPoints == {"poll", "send_progress", "send_terminal", "sleep", "results"}

\* the request of the .await session self is suspended at has left, or has
\* not left, when the future is dropped
InFlight(self) ==
    CASE pc[self] = "send_progress" ->
            \/ ChannelSend(self, OutgoingMessage(self, ProgressContent(status[self][1])), TRUE)
               /\ UNCHANGED requests
            \/ UNCHANGED <<outbox, call_msgs, requests>>
      [] pc[self] = "send_terminal" ->
            \/ ChannelSend(self, OutgoingMessage(self, TerminalContent(status[self][1])), TRUE)
               /\ UNCHANGED requests
            \/ UNCHANGED <<outbox, call_msgs, requests>>
      [] pc[self] = "results" ->
            \/ requests' = Append(requests, [op |-> "results", job |-> job_id[self], resp |-> ""])
               /\ UNCHANGED <<outbox, call_msgs>>
            \/ UNCHANGED <<outbox, call_msgs, requests>>
      [] OTHER -> UNCHANGED <<outbox, call_msgs, requests>>

\* the owner drops the handle of the spawned task and the task runs on
Cancel_Detached(self) ==
    /\ self \notin cancelled
    /\ pc[self] \in SuspendPoints
    /\ cancelled' = cancelled \cup {self}
    /\ UNCHANGED <<pollerVars, plannerVars, seen, functionVars>>

\* the future of run_until_complete is dropped at the .await it is
\* suspended at: no code of the session runs after that
Cancel(self) ==
    /\ self \notin cancelled
    /\ pc[self] \in SuspendPoints
    /\ cancelled' = cancelled \cup {self}
    /\ pc' = [pc EXCEPT ![self] = "cancelled"]
    /\ InFlight(self)
    /\ UNCHANGED <<started, last_step, status, entry_last_step, polls, poll_result,
                   repeat, errors, delay, ret, plannerVars, seen, functionVars>>

\* the status documents of a job that runs as planned
RegularSnapshots == {sn \in Snapshots : Irregularities(sn) = 0}

\* the latest status call of self failed or returned a document of S
Returned(self, S) == IF status'[self] = <<>> THEN TRUE ELSE status'[self][1] \in S


\* one poll session, no language-model call
Init == InitWith({"poller1"}) /\ PlannerInit /\ ObserverInit /\ FunctionsIdle

Next ==
    \/ \E self \in started : PollJobStatus(self) /\ UNCHANGED <<plannerVars, observerVars, functionVars>>
    \/ \E self \in started : SendProgress(self) /\ UNCHANGED <<plannerVars, observerVars, functionVars>>
    \/ \E self \in started : SendTerminal(self) /\ UNCHANGED <<plannerVars, observerVars, functionVars>>
    \/ \E self \in started : Sleep(self) /\ UNCHANGED <<plannerVars, observerVars, functionVars>>
    \/ \E self \in started : GetJobResults(self) /\ UNCHANGED <<plannerVars, observerVars, functionVars>>

Spec == Init /\ [][Next]_vars

\* one poll session that may be cancelled; the job runs as planned
CancelNext ==
    \/ \E self \in started :
          PollJobStatus(self) /\ Returned(self, RegularSnapshots)
             /\ UNCHANGED <<plannerVars, observerVars, functionVars>>
    \/ \E self \in started : SendProgress(self) /\ UNCHANGED <<plannerVars, observerVars, functionVars>>
    \/ \E self \in started : SendTerminal(self) /\ UNCHANGED <<plannerVars, observerVars, functionVars>>
    \/ \E self \in started : Sleep(self) /\ UNCHANGED <<plannerVars, observerVars, functionVars>>
    \/ \E self \in started : GetJobResults(self) /\ UNCHANGED <<plannerVars, observerVars, functionVars>>
    \/ \E self \in started : Cancel(self)

SpecCancel == Init /\ [][CancelNext]_vars

\* one poll session of a job that runs as planned, with an executor service
\* that may stop answering
UnresponsiveNext ==
    \/ \E self \in started :
          PollJobStatus(self) /\ Returned(self, RegularSnapshots)
             /\ UNCHANGED <<plannerVars, observerVars, functionVars>>
    \/ \E self \in started : SendProgress(self) /\ UNCHANGED <<plannerVars, observerVars, functionVars>>
    \/ \E self \in started : SendTerminal(self) /\ UNCHANGED <<plannerVars, observerVars, functionVars>>
    \/ \E self \in started : Sleep(self) /\ UNCHANGED <<plannerVars, observerVars, functionVars>>
    \/ \E self \in started : GetJobResults(self) /\ UNCHANGED <<plannerVars, observerVars, functionVars>>
    \/ \E self \in started : Unanswered(self) /\ UNCHANGED <<plannerVars, observerVars, functionVars>>

SpecUnresponsive == Init /\ [][UnresponsiveNext]_vars

\* the number of status calls after which the executor has settled: the
\* calls left are those a session needs when each send that may fail does
SettledAfter == MaxPolls - MaxSendFailures - 1

\* the latest status call of self, if made after the executor settled,
\* succeeded and reported a terminal status
Settled(self) ==
    polls'[self] > SettledAfter => (status'[self] # <<>> /\ IsTerminal(status'[self][1]))

\* one poll session of a job that runs as planned and ends: from some call
\* on every status call succeeds and reports a terminal status, a status
\* call is always answered, sends fail a bounded number of times; the
\* request for the results may stay unanswered
LiveNext ==
    \/ \E self \in started :
          PollJobStatus(self) /\ Returned(self, RegularSnapshots) /\ Settled(self)
             /\ UNCHANGED <<plannerVars, observerVars, functionVars>>
    \/ \E self \in started : SendProgress(self) /\ UNCHANGED <<plannerVars, observerVars, functionVars>>
    \/ \E self \in started : SendTerminal(self) /\ UNCHANGED <<plannerVars, observerVars, functionVars>>
    \/ \E self \in started : Sleep(self) /\ UNCHANGED <<plannerVars, observerVars, functionVars>>
    \/ \E self \in started : GetJobResults(self) /\ UNCHANGED <<plannerVars, observerVars, functionVars>>
    \/ \E self \in started :
          pc[self] = "results" /\ Unanswered(self)
             /\ UNCHANGED <<plannerVars, observerVars, functionVars>>

\* the runtime keeps polling the future of run_until_complete: a session
\* that can take a step takes one
SpecLive == Init /\ [][LiveNext]_vars /\ WF_vars(LiveNext)

\* the status documents of the jobs of the concurrent sessions: running at
\* step 1 or 2, completed at step 2
SessionSnapshots ==
    {sn \in RegularSnapshots :
        \/ sn.status = "running" /\ sn.currentStep \in {Num(1), Num(2)}
        \/ sn.status = "completed" /\ sn.currentStep = Num(2)}

\* both poll sessions run concurrently
ConcurrentInit == InitWith(Pollers) /\ PlannerInit /\ ObserverInit /\ FunctionsIdle

ConcurrentNext ==
    \/ \E self \in started :
          /\ polls[self] < MaxSessionPolls
          /\ PollJobStatus(self) /\ Returned(self, SessionSnapshots)
          /\ seen' = [seen EXCEPT ![self] = Append(@, status'[self])]
          /\ UNCHANGED <<plannerVars, cancelled, functionVars>>
    \/ \E self \in started : SendProgress(self) /\ UNCHANGED <<plannerVars, observerVars, functionVars>>
    \/ \E self \in started : SendTerminal(self) /\ UNCHANGED <<plannerVars, observerVars, functionVars>>
    \/ \E self \in started : Sleep(self) /\ UNCHANGED <<plannerVars, observerVars, functionVars>>
    \/ \E self \in started : GetJobResults(self) /\ UNCHANGED <<plannerVars, observerVars, functionVars>>

SpecConcurrent == ConcurrentInit /\ [][ConcurrentNext]_vars

\* the language-model calls alone: no poll session is driven
PlannerStart == InitWith({}) /\ PlannerInit /\ ObserverInit /\ FunctionsIdle

PlannerNext ==
    \/ GenerateJobPlan_Send /\ UNCHANGED <<pollerVars, observerVars, functionVars>>
    \/ GenerateJobPlan_Decode /\ UNCHANGED <<pollerVars, observerVars, functionVars>>
    \/ GenerateRecoveryPlan_Send /\ UNCHANGED <<pollerVars, observerVars, functionVars>>
    \/ GenerateRecoveryPlan_Decode /\ UNCHANGED <<pollerVars, observerVars, functionVars>>

SpecPlanner == PlannerStart /\ [][PlannerNext]_vars

\* calls of is_complex_request alone
ClassifierStart ==
    /\ InitWith({}) /\ PlannerInit /\ ObserverInit
    /\ request \in Requests
    /\ is_complex = <<>>
    /\ FormatterIdle /\ ChainIdle

ClassifierNext ==
    IsComplexRequest /\ UNCHANGED <<pollerVars, plannerVars, observerVars, formatterVars, chainVars>>

SpecClassifier == ClassifierStart /\ [][ClassifierNext]_vars

\* calls of format_job_results alone
FormatterStart ==
    /\ InitWith({}) /\ PlannerInit /\ ObserverInit
    /\ ClassifierIdle /\ ChainIdle
    /\ results \in ResultDocuments
    /\ output = <<>>

FormatterNext ==
    FormatJobResults /\ UNCHANGED <<pollerVars, plannerVars, observerVars, classifierVars, chainVars>>

SpecFormatter == FormatterStart /\ [][FormatterNext]_vars

\* one plan and the recoveries of its failing steps
ChainStart ==
    /\ InitWith({}) /\ PlannerInit /\ ObserverInit
    /\ ClassifierIdle /\ FormatterIdle
    /\ chain_pc = "start"
    /\ plan = <<>>
    /\ original = <<>>
    /\ created = <<>>
    /\ recoveries = 0

\* what a step of the chain leaves alone
ChainFrame ==
    UNCHANGED <<pollerVars, planner_pc, planner_in, planner_http, planner_ret, llm_calls,
                observerVars, classifierVars, formatterVars>>

ChainNext ==
    \/ PlanGenerated /\ ChainFrame
    \/ Recovered /\ ChainFrame

SpecChain == ChainStart /\ [][ChainNext]_vars

TypeOK ==
    /\ started \subseteq Pollers
    /\ pc \in [Pollers -> {"idle", "poll", "send_progress", "send_terminal", "sleep",
                           "results", "done", "cancelled", "blocked"}]
    /\ last_step \in [Pollers -> 0..(MaxStep + 1)]
    /\ polls \in [Pollers -> 0..MaxPolls]
    /\ poll_result \in [Pollers -> {"none", "Ok(true)", "Ok(false)", "Err"}]
    /\ delay \in [Pollers -> {0, 3, 5}]

\* ------------------------------------------------------------------------
\* Vocabulary of the properties
\* ------------------------------------------------------------------------

\* the latest poll_and_notify call of p has returned
CallReturned(p) == polls[p] > 0 /\ pc[p] \notin {"send_progress", "send_terminal"}

\* the latest poll_and_notify call of p has returned and had fetched a snapshot
CallReturnedWithSnapshot(p) == CallReturned(p) /\ status[p] # <<>>

\* positions in outbox of the sends of p's poll_and_notify call number n
SendsOfCall(p, n) == {i \in DOMAIN outbox : outbox[i].poller = p /\ outbox[i].poll = n}

ProgressSendsOfCall(p, n) == {i \in SendsOfCall(p, n) : outbox[i].kind = "progress"}

TerminalSendsOfCall(p, n) == {i \in SendsOfCall(p, n) : outbox[i].kind \in TerminalStatuses}

\* positions in outbox of all progress sends of p
ProgressSends(p) == {i \in DOMAIN outbox : outbox[i].poller = p /\ outbox[i].kind = "progress"}

\* ------------------------------------------------------------------------
\* C1
\* ------------------------------------------------------------------------

\* C1: within one poll session at most one progress notification is emitted
\* (one channel.send call is made) per step index.
C1_AtMostOneProgressPerStep ==
    \A p \in Pollers : \A i, j \in ProgressSends(p) :
        outbox[i].step = outbox[j].step => i = j

\* ------------------------------------------------------------------------
\* C2
\* ------------------------------------------------------------------------

\* C2: when a poll_and_notify call observes the same snapshot as the call
\* before it, it emits no notification the call before emitted and it leaves
\* last_step as it found it.
C2_RepeatedSnapshotIsNoOp ==
    \A p \in Pollers :
        repeat[p] =>
            /\ \A i \in SendsOfCall(p, polls[p]) : \A j \in SendsOfCall(p, polls[p] - 1) :
                  ~(outbox[i].kind = outbox[j].kind /\ outbox[i].step = outbox[j].step)
            /\ last_step[p] = entry_last_step[p]

\* ------------------------------------------------------------------------
\* C3
\* ------------------------------------------------------------------------

\* the snapshot of p's latest call passes the step comparison of the call
StepAdvanced(p) ==
    /\ CurrentStepOf(status[p][1]) > entry_last_step[p]
    /\ CurrentStepOf(status[p][1]) <= TotalStepsOf(status[p][1])

HasStepEntry(p) ==
    /\ status[p][1].steps.some
    /\ CurrentStepOf(status[p][1]) <= Len(status[p][1].steps.items)

C4_LastStepMonotone ==
    /\ \A p \in Pollers : last_step[p] = 0
    /\ [][\A p \in Pollers : last_step'[p] >= last_step[p]]_vars

\* after last_step reached 2 and a send failed, a call has seen currentStep 1
C4_Witness ==
    \E p \in Pollers :
        /\ CallReturnedWithSnapshot(p)
        /\ last_step[p] = 2
        /\ CurrentStepOf(status[p][1]) = 1
        /\ FailedSends > 0

\* ------------------------------------------------------------------------
\* C5
\* ------------------------------------------------------------------------

\* C5: the step indices of the successive progress notifications of a session
\* are non-decreasing.
C5_ProgressStepsNonDecreasing ==
    \A p \in Pollers : \A i, j \in ProgressSends(p) :
        i < j => outbox[i].step <= outbox[j].step

\* ------------------------------------------------------------------------
\* C6
\* ------------------------------------------------------------------------

\* the terminal notification for job status js with error field e
MatchesTerminal(msg, js, e) ==
    CASE js = "completed" -> msg.content.text = "Job completed! Fetching results..."
      [] js = "failed" ->
            /\ msg.content.text = "Job failed: "
            /\ msg.content.subject = (IF e = NoStr THEN "Unknown error" ELSE e)
      [] js = "cancelled" -> msg.content.text = "Job was cancelled"
      [] OTHER -> FALSE

\* C6: a call returns terminal=true exactly when the snapshot's status is
\* completed, failed or cancelled, having emitted the matching notification;
\* for every other status it returns terminal=false and emits no terminal
\* notification.
C6_TerminalExactlyOnTerminalStatus ==
    \A p \in Pollers :
        CallReturnedWithSnapshot(p) =>
            LET st == status[p][1] IN
            IF st.status \in {"completed", "failed", "cancelled"}
            THEN /\ poll_result[p] = "Ok(true)"
                 /\ \E k \in DOMAIN call_msgs[p] :
                       MatchesTerminal(call_msgs[p][k], st.status, st.error)
            ELSE /\ poll_result[p] = "Ok(false)"
                 /\ TerminalSendsOfCall(p, polls[p]) = {}

\* ------------------------------------------------------------------------
\* C7
\* ------------------------------------------------------------------------

\* C7: run_until_complete has returned only if its latest poll returned
\* terminal=true on a snapshot whose status is completed, failed or
\* cancelled; a poll that returned an error leaves the loop running.
C7_ReturnsOnlyAfterTerminalStatus ==
    \A p \in Pollers :
        /\ (pc[p] = "done" \/ ret[p] # NotReturned) =>
              /\ poll_result[p] = "Ok(true)"
              /\ status[p] # <<>>
              /\ status[p][1].status \in {"completed", "failed", "cancelled"}
        /\ poll_result[p] = "Err" =>
              /\ ret[p] = NotReturned
              /\ pc[p] \in {"sleep", "poll", "send_progress", "send_terminal"}

\* two polls failed, the third saw a terminal status, and the loop returned
C7_Witness ==
    \E p \in Pollers :
        /\ pc[p] = "done"
        /\ polls[p] = 3
        /\ errors[p] = 2

\* ------------------------------------------------------------------------
\* C8
\* ------------------------------------------------------------------------

\* session p takes a step
Acts(p) == pc'[p] # pc[p] \/ polls'[p] # polls[p]

\* C8: once poll_and_notify has returned terminal=true, the next step of the
\* session is the results call for its own job id, with no status call, sleep
\* or notification in between, and run_until_complete returns what that call
\* returned.
C8_ResultsFetchFollowsTerminal ==
    /\ [](\A p \in Pollers :
            /\ poll_result[p] = "Ok(true)" => pc[p] \in {"results", "done"}
            /\ pc[p] = "results" => ret[p] = NotReturned
            /\ pc[p] = "done" =>
                  \E n \in DOMAIN requests :
                      /\ requests[n] = [op |-> "results", job |-> job_id[p], resp |-> ret[p].value]
                      /\ \A m \in DOMAIN requests : requests[m].job = job_id[p] => m <= n)
    /\ [][\A p \in Pollers :
            /\ (poll_result'[p] = "Ok(true)" /\ pc[p] = "send_terminal") => pc'[p] = "results"
            /\ (pc[p] = "results" /\ Acts(p)) =>
                  /\ pc'[p] = "done"
                  /\ Len(requests') = Len(requests) + 1
                  /\ requests'[Len(requests')].op = "results"
                  /\ requests'[Len(requests')].job = job_id[p]
                  /\ ret'[p].value = requests'[Len(requests')].resp
                  /\ ret'[p].job = job_id[p]
                  /\ outbox' = outbox
                  /\ polls'[p] = polls[p]]_vars

\* the loop returned the results document fetched right after a terminal poll
C8_Witness ==
    \E p \in Pollers :
        /\ pc[p] = "done"
        /\ ret[p].kind = "Ok"
        /\ requests[Len(requests)] = [op |-> "results", job |-> job_id[p], resp |-> ret[p].value]

\* ------------------------------------------------------------------------
\* C9
\* ------------------------------------------------------------------------

\* C9: a poll that returns terminal=false is followed by a sleep of 3 and
\* then a poll, a poll that returns an error by a sleep of 5 and then a poll;
\* no other delay is used and every poll but the first follows a sleep.
C9_FixedDelays ==
    /\ [](\A p \in Pollers :
            /\ delay[p] \in {0, 3, 5}
            /\ pc[p] = "sleep" =>
                  \/ poll_result[p] = "Ok(false)" /\ delay[p] = 3
                  \/ poll_result[p] = "Err" /\ delay[p] = 5)
    /\ [][\A p \in Pollers :
            /\ (Acts(p) /\ pc[p] \in {"poll", "send_progress", "send_terminal"}
                  /\ pc'[p] \notin {"send_progress", "send_terminal"}) =>
                  /\ poll_result'[p] = "Ok(false)" => (pc'[p] = "sleep" /\ delay'[p] = 3)
                  /\ poll_result'[p] = "Err" => (pc'[p] = "sleep" /\ delay'[p] = 5)
            /\ (pc[p] = "sleep" /\ Acts(p)) =>
                  (pc'[p] = "poll" /\ delay'[p] = delay[p] /\ polls'[p] = polls[p])
            /\ (pc'[p] = "poll" /\ pc[p] # "poll") => pc[p] = "sleep"
            /\ (polls'[p] = polls[p] + 1 /\ polls[p] > 0) =>
                  (pc[p] = "poll" /\ delay[p] \in {3, 5})]_vars

\* a session sleeping 5 after a failed poll that had slept 3 after an earlier one
C9_Witness ==
    \E p \in Pollers :
        /\ pc[p] = "sleep"
        /\ delay[p] = 5
        /\ polls[p] = 2
        /\ errors[p] = 1
        /\ outbox = <<>>

\* ------------------------------------------------------------------------
\* C10
\* ------------------------------------------------------------------------

\* C10: a channel.send that fails is swallowed: the notification is not sent
\* again by a later poll, and the call in which it failed returns what the
\* job status says.
C10_SendFailureSwallowed ==
    \A p \in Pollers : \A i \in DOMAIN outbox :
        (outbox[i].poller = p /\ ~outbox[i].ok) =>
            /\ \A j \in DOMAIN outbox :
                  (j > i /\ outbox[j].poller = p) =>
                      ~(outbox[j].kind = outbox[i].kind /\ outbox[j].step = outbox[i].step)
            /\ (outbox[i].poll = polls[p] /\ CallReturned(p)) =>
                  poll_result[p] = (IF status[p][1].status \in {"completed", "failed", "cancelled"}
                                    THEN "Ok(true)" ELSE "Ok(false)")

\* ------------------------------------------------------------------------
\* C11
\* ------------------------------------------------------------------------

\* the executor reported failed or cancelled to p's latest call
ReportedFailure(p) == status[p] # <<>> /\ status[p][1].status \in {"failed", "cancelled"}

\* C11: a status of failed or cancelled is no error of the loop: the call
\* that saw it returns terminal=true once its notification went out (it
\* returns an error only when a send of that call failed), the loop then
\* fetches the results, and run_until_complete returns what the results call
\* returned, Ok with the fetched document when that call succeeded, as for
\* completed.
C11_FailureStatusIsNormalResult ==
    \A p \in Pollers :
        ReportedFailure(p) =>
            /\ CallReturned(p) =>
                  \/ poll_result[p] = "Ok(true)"
                  \/ /\ poll_result[p] = "Err"
                     /\ \E i \in SendsOfCall(p, polls[p]) : ~outbox[i].ok
            /\ poll_result[p] = "Ok(true)" =>
                  /\ pc[p] \in {"results", "done"}
                  /\ \E i \in TerminalSendsOfCall(p, polls[p]) :
                        outbox[i].ok /\ outbox[i].kind = status[p][1].status
            /\ pc[p] = "done" =>
                  /\ requests[Len(requests)].op = "results"
                  /\ requests[Len(requests)].job = job_id[p]
                  /\ ret[p].value = requests[Len(requests)].resp
                  /\ ret[p].kind = (IF ret[p].value \in ResultDocs THEN "Ok" ELSE "Err")

\* a job the executor reported as failed: the failure was notified and
\* run_until_complete returned the fetched results as Ok
C11_Witness ==
    \E p \in Pollers :
        /\ status[p] # <<>> /\ status[p][1].status = "failed"
        /\ pc[p] = "done"
        /\ ret[p].kind = "Ok"
        /\ ret[p].value \in ResultDocs
        /\ \E i \in TerminalSendsOfCall(p, polls[p]) : outbox[i].ok /\ outbox[i].kind = "failed"

\* ------------------------------------------------------------------------
\* C12
\* ------------------------------------------------------------------------

\* the channel.send calls of session p, in order
SentBy(p) == LET Mine(e) == e.poller = p IN SelectSeq(outbox, Mine)

\* the executor-service calls for the job of session p, in order
RequestsFor(p) == LET Mine(e) == e.job = job_id[p] IN SelectSeq(requests, Mine)

SendOf(p, n, kind, step, ok) ==
    [poller |-> p, poll |-> n, ok |-> ok, channel_id |-> channel_id[p],
     kind |-> kind, step |-> step]

\* r with the sends in out put before its own
After(out, r) == [out |-> out \o r.out, last |-> r.last]

RECURSIVE Alone(_, _, _, _, _)
\* session p running alone: the sends it makes and the last_step it ends
\* with when its status calls return snaps (<<>>: the call failed) and its
\* sends have the outcomes oks, from call number n with last_step = last;
\* the run stops at a send whose outcome is not in oks
Alone(p, snaps, oks, n, last) ==
    IF snaps = <<>> THEN [out |-> <<>>, last |-> last]
    ELSE IF Head(snaps) = <<>> THEN Alone(p, Tail(snaps), oks, n + 1, last)
    ELSE LET st == Head(snaps)[1]
             advanced == ProgressDue(st, last)
             due == advanced /\ StepAt(st) # <<>>
         IN  IF due /\ oks = <<>> THEN [out |-> <<>>, last |-> last]
             ELSE LET progress == IF due
                                  THEN <<SendOf(p, n, "progress", CurrentStepOf(st), Head(oks))>>
                                  ELSE <<>>
                      oks1 == IF due THEN Tail(oks) ELSE oks
                      failed == due /\ ~Head(oks)
                      last1 == IF advanced /\ ~failed THEN CurrentStepOf(st) ELSE last
                  IN  IF failed \/ ~IsTerminal(st)
                      THEN After(progress, Alone(p, Tail(snaps), oks1, n + 1, last1))
                      ELSE IF oks1 = <<>> THEN [out |-> progress, last |-> last1]
                      ELSE After(progress \o <<SendOf(p, n, JobStatusOf(st), 0, Head(oks1))>>,
                                 Alone(p, Tail(snaps), Tail(oks1), n + 1, last1))

\* what belongs to session p
SessionState(p) ==
    <<pc[p], last_step[p], status[p], entry_last_step[p], polls[p], poll_result[p],
      errors[p], delay[p], call_msgs[p], ret[p], seen[p], SentBy(p), RequestsFor(p)>>

\* C13: with two poll sessions running concurrently for different jobs,
\* under every interleaving of their status calls, sends and sleeps, every
\* step changes the state of one session only, each session's notifications
\* are addressed to its own channel target, and each session's sends and
\* last_step are those it would have running alone on the same snapshots.
C13_SessionsDoNotInterfere ==
    /\ [](\A p \in Pollers :
            /\ LET sent == SentBy(p)
                   alone == Alone(p, seen[p], [i \in DOMAIN sent |-> sent[i].ok], 1, 0)
               IN  sent = alone.out /\ last_step[p] = alone.last
            /\ \A k \in DOMAIN call_msgs[p] : call_msgs[p][k].channel_id = channel_id[p]
            /\ \A i \in DOMAIN outbox :
                  outbox[i].channel_id = channel_id[p] <=> outbox[i].poller = p)
    /\ [][\A p, q \in Pollers :
            (SessionState(p)' # SessionState(p) /\ SessionState(q)' # SessionState(q))
                => p = q]_vars

\* the two sessions' notifications interleaved: the second session's step 2,
\* then the first session's step 1, then the second session's completion
C13_Witness ==
    /\ Len(outbox) >= 3
    /\ outbox[1].poller = "poller2" /\ outbox[1].kind = "progress" /\ outbox[1].step = 2
    /\ outbox[2].poller = "poller1" /\ outbox[2].kind = "progress" /\ outbox[2].step = 1
    /\ outbox[3].poller = "poller2" /\ outbox[3].kind = "completed"
    /\ last_step["poller1"] = 1
    /\ last_step["poller2"] = 2

\* ------------------------------------------------------------------------
\* Vocabulary of the language-model claims
\* ------------------------------------------------------------------------

\* generate_job_plan / generate_recovery_plan has returned
PlanReturned == planner_pc = "done" /\ planner_in.op = "plan"

RecoveryReturned == planner_pc = "done" /\ planner_in.op = "recovery"

\* the answers a model gives when it does as the prompt says: the bare JSON
\* value, with whitespace around it, or in a code fence
PlainWrappings ==
    {<< <<>>, <<>> >>,
     << <<"ws">>, <<"ws">> >>,
     << <<"fence_json", "ws">>, <<"ws", "fence">> >>,
     << <<"fence", "ws">>, <<"ws", "fence", "ws">> >>}

\* a response arrived whose text is a JSON value of the given type, plainly wrapped
Answered(type) ==
    /\ planner_http.arrived
    /\ planner_http.body.is_json
    /\ planner_http.body.has_text
    /\ <<planner_http.body.text.lead, planner_http.body.text.trail>> \in PlainWrappings
    /\ planner_http.body.text.payload.type = type

\* the JSON value the model answered with
Answer == planner_http.body.text.payload

\* the arguments of the recovery call
failed_step == FailedStepOf(planner_in.failed)

remaining_steps == RemainingStepsOf(planner_in.failed)

\* ------------------------------------------------------------------------
\* C14
\* ------------------------------------------------------------------------

\* C14: for a model response that is a JSON array of n elements,
\* generate_job_plan returns a plan of exactly n steps in array order; the
\* step at 0-based array position i has order i + 1 whatever order the input
\* carries, status pending, and a non-empty id different from the id of
\* every other step.
C14_PlanStepsNumberedInArrayOrder ==
    (PlanReturned /\ Answered("array")) =>
        LET steps == planner_ret.steps IN
        /\ planner_ret.kind = "Ok"
        /\ Len(steps) = Len(Answer.items)
        /\ \A i \in DOMAIN steps :
              /\ steps[i].order = i
              /\ steps[i].status = "pending"
              /\ steps[i].id.len > 0
              /\ steps[i].action = StrOr(Answer.items[i].action, "unknown")
              /\ steps[i].params = Answer.items[i].params
        /\ \A i, j \in DOMAIN steps : i # j => steps[i].id # steps[j].id

\* a fenced two-element answer whose first element echoes order 5 became a
\* plan of two steps
C14_Witness ==
    /\ PlanReturned /\ Answered("array")
    /\ planner_http.body.text.lead # <<>>
    /\ Len(Answer.items) = 2
    /\ Answer.items[1].order = 5
    /\ planner_ret.kind = "Ok"
    /\ planner_ret.steps[1].order = 1
    /\ planner_ret.steps[2].order = 2

\* ------------------------------------------------------------------------
\* C15
\* ------------------------------------------------------------------------

\* C15: when the model's response decodes to an empty JSON array,
\* generate_job_plan returns an error and no plan; it never returns a plan
\* with zero steps.
C15_EmptyArrayIsError ==
    /\ (PlanReturned /\ Answered("array") /\ Answer.items = <<>>) => planner_ret.kind = "Err"
    /\ (PlanReturned /\ planner_ret.kind = "Ok") => planner_ret.steps # <<>>

\* ------------------------------------------------------------------------
\* C16
\* ------------------------------------------------------------------------

\* the text of the response is a JSON array once the code fences are stripped
TextIsArray ==
    /\ planner_http.body.is_json
    /\ planner_http.body.has_text
    /\ ParsesAsJson(StripFences(planner_http.body.text))
    /\ Answer.type = "array"

\* C16: when the language-model call fails in transport, returns a
\* non-success response, or returns text that is missing or is not a JSON
\* array after code-fence stripping, generate_job_plan returns an error after
\* that single call and returns no plan.
C16_FailedCallIsError ==
    (PlanReturned /\ (~planner_http.arrived \/ ~planner_http.success \/ ~TextIsArray)) =>
        /\ planner_ret.kind = "Err"
        /\ planner_ret.steps = <<>>
        /\ llm_calls = 1

\* ------------------------------------------------------------------------
\* C17
\* ------------------------------------------------------------------------

\* C17: when the model's decision is SKIP, generate_recovery_plan returns
\* exactly remaining_steps (same length, same elements with the same ids,
\* orders, actions, params and statuses in the same positions), and the
\* failed step is not among them.
C17_SkipReturnsRemainingSteps ==
    (RecoveryReturned /\ Answered("object") /\ Answer.decision = "SKIP") =>
        /\ planner_ret.kind = "Ok"
        /\ planner_ret.steps = remaining_steps
        /\ \A i \in DOMAIN planner_ret.steps : planner_ret.steps[i].id # failed_step.id
        /\ nanoids = MaxPlanLen

\* the first step of the plan failed, the model said SKIP, and the two
\* steps after it came back
C17_Witness ==
    /\ RecoveryReturned /\ Answered("object") /\ Answer.decision = "SKIP"
    /\ planner_in.failed = 1
    /\ planner_ret.kind = "Ok"
    /\ Len(planner_ret.steps) = 2
    /\ planner_ret.steps[1].order = 2

\* ------------------------------------------------------------------------
\* C18
\* ------------------------------------------------------------------------

\* C18: when the model's decision is RETRY or ALTERNATIVE,
\* generate_recovery_plan returns |remaining_steps| + 1 steps: first one new
\* step with the failed step's order, status pending, an id different from
\* the failed step's id and the model-supplied action (the failed step's
\* action when the model omits it), then the original remaining_steps
\* unchanged and in their order.
C18_RetryPrependsReplacement ==
    (RecoveryReturned /\ Answered("object") /\ Answer.decision \in {"RETRY", "ALTERNATIVE"}) =>
        LET steps == planner_ret.steps IN
        /\ planner_ret.kind = "Ok"
        /\ Len(steps) = Len(remaining_steps) + 1
        /\ steps[1].order = failed_step.order
        /\ steps[1].status = "pending"
        /\ steps[1].id # failed_step.id
        /\ steps[1].action =
              (IF Answer.modified_step # <<>> /\ Answer.modified_step[1].action # NoStr
               THEN Answer.modified_step[1].action ELSE failed_step.action)
        /\ Tail(steps) = remaining_steps

\* ------------------------------------------------------------------------
\* C19
\* ------------------------------------------------------------------------

\* C19: when the model's decision is ABORT or anything other than SKIP,
\* RETRY, ALTERNATIVE, generate_recovery_plan returns an error and no steps;
\* the error carries the model's reason verbatim when there is one and a
\* default reason otherwise.
C19_UnknownDecisionFailsClosed ==
    (RecoveryReturned /\ Answered("object")
        /\ Answer.decision \notin {"SKIP", "RETRY", "ALTERNATIVE"}) =>
        /\ planner_ret.kind = "Err"
        /\ planner_ret.steps = <<>>
        /\ planner_ret.error.msg = "Recovery aborted: "
        /\ planner_ret.error.detail =
              (IF Answer.reason # NoStr THEN Answer.reason ELSE "Unknown reason")
        /\ nanoids = MaxPlanLen

\* the model answered with the unrecognized decision "skip" and a reason,
\* and the call failed with that reason
C19_Witness ==
    /\ RecoveryReturned /\ Answered("object")
    /\ Answer.decision = "skip"
    /\ Answer.reason = "site unreachable"
    /\ planner_ret.kind = "Err"
    /\ planner_ret.error.detail = "site unreachable"

\* ------------------------------------------------------------------------
\* C20
\* ------------------------------------------------------------------------

\* the errors generate_recovery_plan returns for an explicit ABORT decision
AbortErrors ==
    {RecoveryOf(FailedStepOf(k), RemainingStepsOf(k), JsonObject("ABORT", r, m), MaxPlanLen).error :
        k \in 1..MaxPlanLen, r \in Reasons, m \in ModifiedSteps}

\* the model's output is invalid JSON or a JSON object without a decision
MalformedAnswer ==
    /\ planner_http.arrived
    /\ planner_http.body.is_json
    /\ planner_http.body.has_text
    /\ \/ ~ParsesAsJson(StripFences(planner_http.body.text))
       \/ Answer.type = "object" /\ Answer.decision = NoStr

\* C20: the error generate_recovery_plan returns for malformed model output
\* (invalid JSON, or a JSON object with no decision field) is never an
\* error it returns for an explicit ABORT decision.
C20_MalformedDistinctFromAbort ==
    (RecoveryReturned /\ MalformedAnswer) =>
        /\ planner_ret.kind = "Err"
        /\ planner_ret.error \notin AbortErrors

\* ------------------------------------------------------------------------
\* C29
\* ------------------------------------------------------------------------

\* the latest poll_and_notify call of p has returned and its status call failed
StatusCallFailed(p) == CallReturned(p) /\ status[p] = <<>>

\* C29: when the status call of poll_and_notify fails, the call returns an
\* error, has sent no notification and has left last_step as it found it; the
\* failing step changes neither last_step nor the notifications sent, so the
\* next call starts from the state the failed call started from.
C29_FailedStatusCallLeavesNoTrace ==
    /\ [](\A p \in Pollers :
            StatusCallFailed(p) =>
                /\ poll_result[p] = "Err"
                /\ SendsOfCall(p, polls[p]) = {}
                /\ last_step[p] = entry_last_step[p])
    /\ [][\A p \in Pollers :
            (polls'[p] = polls[p] + 1 /\ status'[p] = <<>>) =>
                /\ last_step' = last_step
                /\ outbox' = outbox
                /\ poll_result'[p] = "Err"]_vars

\* a status call failed in a session that had already recorded step 2
C29_Witness ==
    \E p \in Pollers :
        /\ StatusCallFailed(p)
        /\ polls[p] >= 2
        /\ last_step[p] = 2
        /\ \E i \in ProgressSends(p) : outbox[i].ok

\* ------------------------------------------------------------------------
\* C30
\* ------------------------------------------------------------------------

\* C30: when the snapshot has last_step < current_step <= total_steps but no
\* steps entry at position current_step, the call sends no progress
\* notification and sets last_step to current_step; last_step never decreases
\* and no progress notification is ever sent for a step index at or below it,
\* so none is sent for that step index later in the session.
C30_MissingStepEntrySkipsStepForGood ==
    /\ [](\A p \in Pollers :
            (CallReturnedWithSnapshot(p) /\ StepAdvanced(p) /\ ~HasStepEntry(p)) =>
                /\ ProgressSendsOfCall(p, polls[p]) = {}
                /\ last_step[p] = CurrentStepOf(status[p][1]))
    /\ [][\A p \in Pollers :
            /\ last_step'[p] >= last_step[p]
            /\ \A i \in (Len(outbox) + 1)..Len(outbox') :
                  (outbox'[i].poller = p /\ outbox'[i].kind = "progress")
                      => outbox'[i].step > last_step[p]]_vars

\* step 2 was passed over without a notification, and a later call that found
\* step 2 listed sent nothing for it
C30_Witness ==
    \E p \in Pollers :
        /\ CallReturnedWithSnapshot(p) /\ HasStepEntry(p)
        /\ CurrentStepOf(status[p][1]) = 2
        /\ entry_last_step[p] = 2
        /\ \A i \in ProgressSends(p) : outbox[i].step # 2


\* ------------------------------------------------------------------------
\* Vocabulary of the properties of is_complex_request
\* ------------------------------------------------------------------------

\* the message of the call as its words were given, in lower case
Wording == Sentence(request.words, "lower")

\* pat stands in text from position i on
Occurs(text, pat, i) ==
    /\ i + Len(pat) - 1 <= Len(text)
    /\ \A j \in 1..Len(pat) : text[i + j - 1] = pat[j]

\* number of places of text where pat stands
Occurrences(text, pat) == Cardinality({i \in 1..Len(text) : Occurs(text, pat, i)})

\* (a) a connective phrase is present
HasConnective ==
    \E k \in DOMAIN multi_step_keywords : Occurrences(Wording, multi_step_keywords[k]) > 0

\* the occurrences of find, get, analyze, draft and send, summed
VerbCount ==
    Occurrences(Wording, <<"f", "i", "n", "d">>)
    + Occurrences(Wording, <<"g", "e", "t">>)
    + Occurrences(Wording, <<"a", "n", "a", "l", "y", "z", "e">>)
    + Occurrences(Wording, <<"d", "r", "a", "f", "t">>)
    + Occurrences(Wording, <<"s", "e", "n", "d">>)

\* (c) a compound-intent phrase is present
HasIndicator ==
    \E k \in DOMAIN complex_indicators : Occurrences(Wording, complex_indicators[k]) > 0

\* the call of is_complex_request has returned
Classified == is_complex # <<>>

\* ------------------------------------------------------------------------
\* C23
\* ------------------------------------------------------------------------

\* C23: for every message that contains a multi-step connective phrase, in
\* whatever letter case it is typed, is_complex_request returns true,
\* whatever the tool results are.
C23_ConnectiveInAnyCaseIsComplex ==
    (Classified /\ HasConnective) => is_complex = <<TRUE>>

\* a message in capitals whose only cue is a connective phrase, with no tool
\* results, was classified complex
C23_Witness ==
    /\ Classified /\ HasConnective
    /\ request.style = "UPPER"
    /\ VerbCount < 2 /\ ~HasIndicator /\ request.tool_results = <<>>
    /\ is_complex = <<TRUE>>

\* ------------------------------------------------------------------------
\* C24
\* ------------------------------------------------------------------------

\* C24: for every message in which find, get, analyze, draft and send occur
\* at least twice in sum, is_complex_request returns true, also without a
\* connective phrase and without tool results.
C24_TwoVerbsAreComplex ==
    (Classified /\ VerbCount >= 2) => is_complex = <<TRUE>>

\* one verb occurring twice, no connective phrase, no compound-intent
\* phrase and no tool results: classified complex
C24_Witness ==
    /\ Classified /\ VerbCount = 2
    /\ request.words[1] = request.words[Len(request.words)]
    /\ ~HasConnective /\ ~HasIndicator /\ request.tool_results = <<>>
    /\ is_complex = <<TRUE>>

\* ------------------------------------------------------------------------
\* C25
\* ------------------------------------------------------------------------

\* C25: is_complex_request returns for every call, and it returns true
\* exactly when (a) a connective phrase is present, or (b) the summed verb
\* count is at least 2, or (c) a compound-intent phrase is present, or (d)
\* there is more than one tool result; with no or one tool result and none
\* of (a) to (c) it returns false.
C25_ComplexIffOneOfFourConditions ==
    /\ is_complex_request(Sentence(request.words, request.style), request.tool_results)
          \in BOOLEAN
    /\ Classified =>
          is_complex = <<(HasConnective \/ VerbCount >= 2 \/ HasIndicator
                          \/ Len(request.tool_results) > 1)>>

\* a message with one verb and one tool result was classified simple
C25_Witness ==
    /\ Classified
    /\ VerbCount = 1 /\ Len(request.tool_results) = 1
    /\ is_complex = <<FALSE>>


\* ------------------------------------------------------------------------
\* C26
\* ------------------------------------------------------------------------

\* format_job_results has returned
Formatted == output # <<>>

\* what the call was given
businesses == results.businesses.items

contacts == results.contacts.items

\* the lines of the output of one kind
LinesOf(kind) == {i \in DOMAIN output : output[i].kind = kind}

\* where the contacts block starts; past the end when there is none
ContactsAt ==
    IF LinesOf("contacts") = {} THEN Len(output) + 1
    ELSE CHOOSE i \in LinesOf("contacts") : \A j \in LinesOf("contacts") : i <= j

\* the lines of one kind before and from the start of the contacts block
Before(kind) == {i \in LinesOf(kind) : i < ContactsAt}

From(kind) == {i \in LinesOf(kind) : i > ContactsAt}

\* the entries of a list that are listed: the first ten
Listed(items) == 1..(IF Len(items) < 10 THEN Len(items) ELSE 10)

\* the lines of set S are one "more" line stating len - 10 when len > 10,
\* and none otherwise
StatesTheRest(S, len) ==
    IF len > 10
    THEN Cardinality(S) = 1 /\ \A i \in S : output[i].n = len - 10
    ELSE S = {}

\* C26: format_job_results lists the first min(n, 10) of n businesses, in
\* input order, and then a line stating n - 10 more exactly when n > 10; the
\* contacts are cut the same way, and everything about the businesses is
\* printed before the contacts.
C26_ListsCutAtTen ==
    Formatted =>
        /\ {output[i].n : i \in LinesOf("business")} = Listed(businesses)
        /\ Cardinality(LinesOf("business")) = Cardinality(Listed(businesses))
        /\ \A i, j \in LinesOf("business") : i < j => output[i].n < output[j].n
        /\ \A i \in LinesOf("business") :
              output[i].text = StrOr(businesses[output[i].n].name, "Unknown")
        /\ StatesTheRest(Before("more"), Len(businesses))
        /\ \A i \in Before("more") : \A j \in LinesOf("business") : j < i
        /\ {output[i].n : i \in LinesOf("contact")} =
              {k \in Listed(contacts) : contacts[k].name # NoStr}
        /\ \A i, j \in LinesOf("contact") : i < j => output[i].n < output[j].n
        /\ \A i \in LinesOf("contact") : output[i].text = contacts[output[i].n].name
        /\ contacts # <<>> =>
              Cardinality(From("blank")) =
                 Cardinality(Listed(contacts)) + Cardinality(From("more")) + 1
        /\ StatesTheRest(From("more"), Len(contacts))
        /\ \A i \in From("more") : \A j \in LinesOf("contact") : j < i
        /\ \A i \in LinesOf("business") \cup LinesOf("businesses") : i < ContactsAt
        /\ \A i \in LinesOf("contact") \cup LinesOf("email") : i > ContactsAt

\* fifteen businesses gave ten numbered lines and "5 more", and twelve
\* contacts followed them
C26_Witness ==
    /\ Formatted
    /\ Len(businesses) = 15 /\ Len(contacts) = 12
    /\ Cardinality(LinesOf("business")) = 10
    /\ \E i \in Before("more") : output[i].n = 5
    /\ \E i \in From("more") : output[i].n = 2


\* ------------------------------------------------------------------------
\* Vocabulary of the properties of a plan under recovery
\* ------------------------------------------------------------------------

\* a recovery has just replaced the first step of the plan
Replaces == recoveries' = recoveries + 1 /\ Len(plan') = Len(plan)

\* a recovery has just dropped the first step of the plan
Drops == recoveries' = recoveries + 1 /\ Len(plan') = Len(plan) - 1

\* ------------------------------------------------------------------------
\* C21
\* ------------------------------------------------------------------------

\* C21: after plan generation and any sequence of successful recoveries of
\* the first step, the order values of the plan are strictly increasing and
\* every step of the generated plan that is still there has its original
\* order value; a recovery leaves the steps after the failed one as they are
\* and a replacement step has the order of the step it replaces.
C21_OrdersKeptThroughRecoveries ==
    /\ [](chain_pc = "running" =>
            /\ \A i, j \in DOMAIN plan : i < j => plan[i].order < plan[j].order
            /\ \A k \in DOMAIN original : original[k].order = k
            /\ \A i \in DOMAIN plan : \A k \in DOMAIN original :
                  plan[i].id = original[k].id => plan[i].order = k)
    /\ [][/\ recoveries' # recoveries => Replaces \/ Drops
          /\ Replaces => plan'[1].order = plan[1].order /\ Tail(plan') = Tail(plan)
          /\ Drops => plan' = Tail(plan)]_vars

\* the first step was skipped, the second replaced: the plan is the
\* replacement at order 2 and the original third step at order 3
C21_Witness ==
    /\ chain_pc = "running"
    /\ recoveries = 2
    /\ Len(original) = 3 /\ Len(plan) = 2
    /\ plan[1].order = 2 /\ plan[1].id # original[2].id
    /\ plan[2] = original[3]

\* ------------------------------------------------------------------------
\* C22
\* ------------------------------------------------------------------------

\* C22: after plan generation and any sequence of recoveries, every step
\* created has an id none of the steps created before it has, a replacement
\* step in particular not the id of the failed step, and the ids of the
\* steps of the plan differ pairwise.
C22_StepIdsNeverReused ==
    /\ [](chain_pc = "running" =>
            /\ \A i, j \in DOMAIN created : i # j => created[i] # created[j]
            /\ \A i, j \in DOMAIN plan : i # j => plan[i].id # plan[j].id
            /\ \A i \in DOMAIN plan : \E j \in DOMAIN created : created[j] = plan[i].id)
    /\ [][Replaces =>
            /\ plan'[1].id # plan[1].id
            /\ \A j \in DOMAIN created : created[j] # plan'[1].id]_vars

\* a step was replaced, and its replacement replaced again: three steps were
\* created for the first place of a plan
C22_Witness ==
    /\ chain_pc = "running"
    /\ recoveries = 2
    /\ original # <<>> /\ Len(plan) = Len(original)
    /\ Len(created) = Len(original) + 2
    /\ plan[1].order = 1


\* ------------------------------------------------------------------------
\* C28
\* ------------------------------------------------------------------------

\* session p is inside a call the service does not answer
AwaitsAnswer(p) == pc[p] = "blocked"

\* some step of the program takes session p out of the call it is in
CallEnds(p) == UnresponsiveNext /\ pc'[p] # pc[p]

\* C28: every call to the executor service is a bounded wait: whenever a
\* session is inside a call that gets no answer, a step that ends the call
\* (the timeout error) is possible, so no session stays inside one call for
\* ever.
C28_EveryCallIsBoundedWait ==
    \A p \in started : AwaitsAnswer(p) => ENABLED CallEnds(p)


\* ------------------------------------------------------------------------
\* C31
\* ------------------------------------------------------------------------

\* the progress send of the latest poll_and_notify call of p failed
ProgressSendFailed(p) ==
    /\ CallReturnedWithSnapshot(p)
    /\ \E i \in ProgressSendsOfCall(p, polls[p]) : ~outbox[i].ok

\* the next call of p fetches a snapshot with the current_step of the latest
NextPollSameStep(p) ==
    /\ polls'[p] = polls[p] + 1
    /\ status'[p] # <<>>
    /\ CurrentStepOf(status'[p][1]) = CurrentStepOf(status[p][1])

\* a failed progress send makes the call return the error with last_step as
\* it was and with no terminal notification attempted
FailedProgressReturnsEarly ==
    \A p \in Pollers :
        ProgressSendFailed(p) =>
            /\ poll_result[p] = "Err"
            /\ last_step[p] = entry_last_step[p]
            /\ TerminalSendsOfCall(p, polls[p]) = {}
            /\ Cardinality(SendsOfCall(p, polls[p])) = 1

\* C31 as stated: when sending a progress notification fails, the call
\* returns the error before updating last_step and before looking at the job
\* status, and the next successful poll of a snapshot with the same
\* current_step attempts that progress notification again.
C31_FailedProgressIsRetried ==
    /\ []FailedProgressReturnsEarly
    /\ [][\A p \in Pollers :
            (ProgressSendFailed(p) /\ NextPollSameStep(p)) => pc'[p] = "send_progress"]_vars

\* C31 as amended: the same, where the next snapshot with the same
\* current_step still has current_step <= total_steps and a steps entry at
\* position current_step; without them the call attempts no progress
\* notification.
C31_FailedProgressIsRetriedIfStepListed ==
    /\ []FailedProgressReturnsEarly
    /\ [][\A p \in Pollers :
            (ProgressSendFailed(p) /\ NextPollSameStep(p)) =>
                LET st == status'[p][1]
                    listed == /\ CurrentStepOf(st) <= TotalStepsOf(st)
                              /\ st.steps.some
                              /\ CurrentStepOf(st) <= Len(st.steps.items)
                IN  IF listed THEN pc'[p] = "send_progress"
                    ELSE pc'[p] # "send_progress" /\ outbox' = outbox]_vars

\* the progress send for step 2 failed in one call and the next call is
\* sending it again
C31_Witness ==
    \E p \in Pollers :
        /\ pc[p] = "send_progress"
        /\ polls[p] >= 2
        /\ CurrentStepOf(status[p][1]) = 2
        /\ last_step[p] < 2
        /\ \E i \in ProgressSendsOfCall(p, polls[p] - 1) : ~outbox[i].ok /\ outbox[i].step = 2


\* ------------------------------------------------------------------------
\* C32
\* ------------------------------------------------------------------------

\* the terminal notifications of p that were delivered
DeliveredTerminals(p) ==
    {i \in DOMAIN outbox :
        outbox[i].poller = p /\ outbox[i].kind \in TerminalStatuses /\ outbox[i].ok}

\* the terminal send of the latest poll_and_notify call of p failed
TerminalSendFailed(p) ==
    /\ CallReturned(p)
    /\ \E i \in TerminalSendsOfCall(p, polls[p]) : ~outbox[i].ok

\* C32: in a poll session at most one terminal notification is delivered;
\* it is the last notification of the session and it was sent by the last
\* status poll of the session.  A terminal notification whose send fails
\* makes the poll return an error, and the loop sleeps to poll again and
\* fetches no results.
C32_OneDeliveredTerminalEndsSession ==
    \A p \in Pollers :
        /\ Cardinality(DeliveredTerminals(p)) <= 1
        /\ \A i \in DeliveredTerminals(p) :
              /\ \A j \in DOMAIN outbox : outbox[j].poller = p => j <= i
              /\ outbox[i].poll = polls[p]
              /\ pc[p] \in {"results", "done"}
        /\ TerminalSendFailed(p) =>
              /\ poll_result[p] = "Err"
              /\ pc[p] \in {"sleep", "poll"}
              /\ delay[p] = 5
              /\ ret[p] = NotReturned
              /\ \A k \in DOMAIN requests :
                    requests[k].job = job_id[p] => requests[k].op = "status"

\* a terminal notification failed in one call and was delivered by the next,
\* after which the session returned
C32_Witness ==
    \E p \in Pollers :
        /\ pc[p] = "done"
        /\ DeliveredTerminals(p) # {}
        /\ \E i \in TerminalSendsOfCall(p, polls[p] - 1) : ~outbox[i].ok


\* ------------------------------------------------------------------------
\* C33
\* ------------------------------------------------------------------------

\* C33: one poll_and_notify call sends at most one progress notification
\* and at most one terminal notification, the progress notification first;
\* the progress notification is for current_step of the call's snapshot, so
\* when current_step jumped past some step indices the call sends nothing
\* for them.
C33_OneProgressThenOneTerminalPerCall ==
    \A p \in Pollers :
        /\ \A n \in 1..polls[p] :
              /\ Cardinality(ProgressSendsOfCall(p, n)) <= 1
              /\ Cardinality(TerminalSendsOfCall(p, n)) <= 1
              /\ \A i \in ProgressSendsOfCall(p, n) : \A j \in TerminalSendsOfCall(p, n) :
                    i < j /\ outbox[i].ok
        /\ \A i \in SendsOfCall(p, polls[p]) :
              /\ status[p] # <<>>
              /\ outbox[i].kind = "progress" =>
                    /\ outbox[i].step = CurrentStepOf(status[p][1])
                    /\ outbox[i].step > entry_last_step[p]
              /\ outbox[i].kind # "progress" => outbox[i].kind = JobStatusOf(status[p][1])

\* a call found the job completed at step 3 with last_step at 1: it sent the
\* progress notification for step 3, then the terminal notification, and
\* nothing for step 2
C33_Witness ==
    \E p \in Pollers :
        /\ CallReturnedWithSnapshot(p)
        /\ entry_last_step[p] = 1
        /\ CurrentStepOf(status[p][1]) = 3
        /\ \E i \in ProgressSendsOfCall(p, polls[p]) : \E j \in TerminalSendsOfCall(p, polls[p]) :
              i < j /\ outbox[i].step = 3 /\ outbox[j].kind = "completed"
        /\ \A i \in ProgressSends(p) : outbox[i].step # 2


\* ------------------------------------------------------------------------
\* C34
\* ------------------------------------------------------------------------

\* the requests for the final results of p's job
ResultsFetches(p) ==
    {k \in DOMAIN requests : requests[k].op = "results" /\ requests[k].job = job_id[p]}

\* C34: the final results are fetched at most once per session, after a
\* delivered terminal notification; the session returns what that one fetch
\* gave, error included, and does nothing after it: the fetch is the last
\* request for the job, the terminal notification the last notification.
C34_FailedFetchIsReturnedAtOnce ==
    \A p \in Pollers :
        /\ Cardinality(ResultsFetches(p)) <= 1
        /\ \A k \in ResultsFetches(p) :
              /\ pc[p] = "done"
              /\ ret[p].kind = (IF requests[k].resp \in ResultFailures THEN "Err" ELSE "Ok")
              /\ ret[p].value = requests[k].resp
              /\ \A m \in DOMAIN requests : requests[m].job = job_id[p] => m <= k
              /\ IsTerminal(status[p][1])
              /\ \E i \in TerminalSendsOfCall(p, polls[p]) :
                    /\ outbox[i].ok
                    /\ \A j \in DOMAIN outbox : outbox[j].poller = p => j <= i
        /\ ret[p].kind = "Err" => ResultsFetches(p) # {}
        /\ ret[p] # NotReturned => pc[p] = "done"

\* a session returned the error of its one failed fetch of the results
C34_Witness ==
    \E p \in Pollers :
        /\ ret[p].kind = "Err"
        /\ \E k \in ResultsFetches(p) : requests[k].resp \in ResultFailures
        /\ pc[p] = "done"


\* ------------------------------------------------------------------------
\* C36
\* ------------------------------------------------------------------------

\* the snapshot of p's latest call fails the step comparison: current_step
\* (0 when absent) is not above last_step, or is above total_steps (1 when
\* absent)
StepGuardFails(p) ==
    \/ CurrentStepOf(status[p][1]) <= entry_last_step[p]
    \/ CurrentStepOf(status[p][1]) > TotalStepsOf(status[p][1])

\* C36: a call whose snapshot fails the step comparison sends no progress
\* notification and leaves last_step as it was; and whenever last_step
\* changes it becomes current_step of the snapshot just fetched, which lies
\* between 1 and that snapshot's total_steps, so last_step is 0 or such a
\* value.
C36_StepGuardKeepsLastStep ==
    /\ [](\A p \in Pollers :
            /\ (status[p] # <<>> /\ StepGuardFails(p)) =>
                  /\ ProgressSendsOfCall(p, polls[p]) = {}
                  /\ last_step[p] = entry_last_step[p]
                  /\ pc[p] # "send_progress"
            /\ last_step[p] >= 0)
    /\ [][\A p \in Pollers :
            last_step'[p] # last_step[p] =>
                /\ status'[p] # <<>>
                /\ last_step'[p] = CurrentStepOf(status'[p][1])
                /\ 1 <= last_step'[p]
                /\ last_step'[p] <= TotalStepsOf(status'[p][1])]_vars

\* a call returned whose snapshot had current_step above total_steps and
\* above a last_step that was already set: last_step kept its value
C36_Witness ==
    \E p \in Pollers :
        /\ CallReturnedWithSnapshot(p)
        /\ CurrentStepOf(status[p][1]) > TotalStepsOf(status[p][1])
        /\ CurrentStepOf(status[p][1]) > entry_last_step[p]
        /\ entry_last_step[p] > 0
        /\ last_step[p] = entry_last_step[p]


\* ------------------------------------------------------------------------
\* C37
\* ------------------------------------------------------------------------

\* the model decided RETRY or ALTERNATIVE and gave no modified_step object
RetryWithoutStep ==
    /\ RecoveryReturned /\ Answered("object")
    /\ Answer.decision \in {"RETRY", "ALTERNATIVE"}
    /\ Answer.modified_step = <<>>

Suffix(s, n) == SubSeq(s, Len(s) - n + 1, Len(s))

\* C38: a successful recovery returns remaining_steps, element for element,
\* at the end of its result, preceded by at most one step; the call's
\* arguments are the same after the call as before it.
C38_RemainingStepsAreSuffix ==
    /\ []((RecoveryReturned /\ planner_ret.kind = "Ok") =>
            /\ Len(planner_ret.steps) \in {Len(remaining_steps), Len(remaining_steps) + 1}
            /\ Suffix(planner_ret.steps, Len(remaining_steps)) = remaining_steps)
    /\ [][planner_pc = "recovery_body" => planner_in' = planner_in]_vars

\* the first step failed and the recovery returned a new step followed by
\* every step that remained, in their order
C38_Witness ==
    /\ RecoveryReturned /\ planner_ret.kind = "Ok"
    /\ planner_in.failed = 1
    /\ Len(planner_ret.steps) = MaxPlanLen
    /\ planner_ret.steps[1] \notin {RunningPlan[i] : i \in DOMAIN RunningPlan}
    /\ planner_ret.steps[2] = RunningPlan[2]
    /\ planner_ret.steps[MaxPlanLen] = RunningPlan[MaxPlanLen]


\* ------------------------------------------------------------------------
\* C35
\* ------------------------------------------------------------------------

\* run_until_complete of every session has returned
AllReturned == \A p \in started : ret[p] # NotReturned

\* C35: when, from some point on, every status call succeeds and reports a
\* terminal status and the notification sends succeed (the executor and the
\* channel of SpecLive), run_until_complete eventually returns; and it has
\* returned only if the executor reported a terminal status.
C35_EventuallyReturns ==
    /\ <>AllReturned
    /\ [](\A p \in started :
            ret[p] # NotReturned => (status[p] # <<>> /\ IsTerminal(status[p][1])))

\* every session ends: it returns, or waits for ever for the answer to a
\* request it made
ReturnsOrAwaitsAnswer == <>(\A p \in started : ret[p] # NotReturned \/ AwaitsAnswer(p))

====
